---- MODULE Spec2Model ----
(***************************************************************************)
(* Model of the config generator of qwc_services: the permission query    *)
(* layer, the permission-filtered layer tree walks of the OGC,             *)
(* Dataproduct and Data service assemblers, the run of                     *)
(* ConfigGenerator.write_permissions over them, and the recursive layer    *)
(* collection of the QGIS project writer.                                  *)
(***************************************************************************)
EXTENDS Integers, Sequences, FiniteSets, TLC

(***************************************************************************)
(* Bounds of the model.                                                    *)
(***************************************************************************)
\* number of OWS layers in the ConfigDB (layer 1 is the root group)
NumLayers == 3
\* number of attributes of the Dataset View
NumAttrs == 2
\* priorities of edit grants range over 1..MaxPriority
MaxPriority == 2
\* at most this many grants of one role on the edit dataset
MaxGrants == 2
\* scaled-down interpreter recursion limit for the recursive layer walk
RecursionLimit == 5

(***************************************************************************)
(* GDI resources of the ConfigDB.  gdi_oid values are allocated in        *)
(* sequence: the layers first, then one resource of every other kind.      *)
(***************************************************************************)
LayerIds == 1..NumLayers
\* WmsWfs.root_layer: the root group of the WMS and of the WFS
RootLayer == 1
DataSetViewId == NumLayers + 1
DataSetId == NumLayers + 2
DataSourceId == NumLayers + 3
TemplateInfoId == NumLayers + 4
WmsId == NumLayers + 5
WfsId == NumLayers + 6
DataSetEditId == NumLayers + 7
BackgroundLayerId == NumLayers + 8
TemplateQgisId == NumLayers + 9
AttrIds == (NumLayers + 10)..(NumLayers + 9 + NumAttrs)
ResourceIds == 1..(NumLayers + 9 + NumAttrs)

\* gdi_resource.table_name of a resource
table_name(id) ==
    IF id \in LayerIds THEN "ows_layer"
    ELSE IF id = DataSetViewId THEN "data_set_view"
    ELSE IF id = DataSetId THEN "data_set"
    ELSE IF id = DataSourceId THEN "data_source"
    ELSE IF id = TemplateInfoId THEN "template"
    ELSE IF id = TemplateQgisId THEN "template"
    ELSE IF id \in {WmsId, WfsId} THEN "wms_wfs"
    ELSE IF id = DataSetEditId THEN "data_set_edit"
    ELSE IF id = BackgroundLayerId THEN "background_layer"
    ELSE "data_set_view_attributes"

\* names of the attributes of the Dataset View, in attribute order
AttrNames == <<"attr_a", "attr_b", "attr_c", "attr_d">>
\* DataSetView.attributes: the attribute rows in attribute_order
attributes == [i \in 1..NumAttrs |-> [gdi_oid |-> NumLayers + 9 + i, name |-> AttrNames[i]]]

PUBLIC_ROLE_NAME == "public"
\* the roles of the permissions document, in document order
Roles == <<"public", "editor">>
\* the services of the generator config that have a permissions handler
Services == <<"print", "ogc", "dataproduct", "data">>

VARIABLES
    \* ---- ConfigDB (read-only during a run) ----
    layer_type,          \* OWSLayer.type: "group" or "data"
    facade,              \* OWSLayerGroup.facade, FALSE for a data layer
    layer_transparency,  \* OWSLayerData.layer_transparency, 0 for a group
    num_attributes,      \* number of attributes of the Dataset View
    sub_layers,          \* OWSLayerGroup.sub_layers: child ids in layer_order
    wms_wfs,             \* ows_type of the rows of wms_wfs: "WMS", "WFS"
    templateinfo,        \* layers that reference the info template
    connection_type,     \* DataSource.connection_type
    connection,          \* scheme of DataSource.connection
    qgs_style,           \* per layer: OWSLayer.qgs_style is "valid" or "invalid"
    geodb,               \* per layer: geometry column named by its Dataset View and
                         \* answers of the GeoDB while the layer is collected
    resource_permission, \* rows of resource_permission
    data_set_views,      \* the edit datasets in name order, each with its Dataset
                         \* View, Data Set, Data Source and the answers of its table
    \* ---- ConfigGenerator.write_permissions ----
    svc_idx,             \* index of the service being collected
    role_idx,            \* index of the role being collected
    run,                 \* "running", "done" or "raised"
    permissions,         \* per role: the merged permission documents
    collected,           \* <<service, role>> pairs already merged
    session,             \* per handler: shared session (self.session) and number
                         \* of sessions its permissions() calls have opened
    edit_permissions,    \* per role: rows returned by resource_permissions
    filter_ids,          \* per role: permitted_ids last computed by a handler
    logger,              \* log entries written so far
    \* ---- QGSWriter.collect_layers ----
    stack,               \* call stack of collect_layers
    step,                \* position inside the frame on top of the stack
    vectorlayerids,      \* ids of the vector layers collected so far
    uuids,               \* number of layer ids generated so far
    qgs_result,          \* value returned by the outermost call
    qgs_raised,          \* exception that left collect_layers, or "none"
    \* ---- QGSWriter.update_qgs ----
    qgs_session,         \* session of update_qgs: "none", "open" or "closed"
    qgs_files,           \* project files written so far
    \* ---- ConfigGenerator.write_configs ----
    cfg_services,        \* names of the 'services' of the run settings, in order
    cfg_idx,             \* index of the service being written
    cfg_step,            \* "idle", "config", "validate", "write", "done", "raised"
    config,              \* document returned by the handler's config()
    cfg_session,         \* handlers whose config() session is still open
    files,               \* names of the config files written so far
    cfg_raised,          \* exception that left write_configs, or "none"
    \* ---- the Flask application (server.py) ----
    requests,            \* per request: its route, its position and the
                         \* ConfigGenerator it created
    generators,          \* number of ConfigGenerator instances created
    engines,             \* engines made by create_engine, each with the
                         \* DatabaseEngine instance that holds it
    sessions,            \* sessions created by ConfigModels.session()
    self_session         \* per handler instance: its self.session, 0 for None

dbvars == <<layer_type, facade, layer_transparency, num_attributes, sub_layers, wms_wfs,
            templateinfo, connection_type, connection, qgs_style, geodb,
            resource_permission, data_set_views>>
runvars == <<svc_idx, role_idx, run, permissions, collected, session, edit_permissions,
             filter_ids, logger>>
qgsvars == <<stack, step, vectorlayerids, uuids, qgs_result, qgs_raised>>
cfgvars == <<cfg_services, cfg_idx, cfg_step, config, cfg_session, files, cfg_raised>>
prjvars == <<qgs_session, qgs_files>>
srvvars == <<requests, generators, engines, sessions, self_session>>
vars == <<dbvars, runvars, qgsvars, prjvars, cfgvars, srvvars>>

(***************************************************************************)
(* Permission query layer (permissions_query.py).                          *)
(***************************************************************************)
public_role == PUBLIC_ROLE_NAME

\* base query: all permission rows of a role
role_permissions_query(role) == {p \in resource_permission : p.role = role}

\* set of permitted resource ids of a role over the given resource types
resource_ids(table_names, role) ==
    {p.gdi_oid_resource :
        p \in {q \in role_permissions_query(role) :
                  table_name(q.gdi_oid_resource) \in table_names}}

\* all orderings of a finite set of rows
RowOrders(rows) ==
    {s \in [1..Cardinality(rows) -> rows] :
        \A i, j \in 1..Cardinality(rows) : i # j => s[i] # s[j]}

\* ORDER BY priority DESC: rows of equal priority come in any order
order_by_priority_desc(rows) ==
    {s \in RowOrders(rows) :
        \A i \in 1..(Len(s) - 1) : s[i].priority >= s[i + 1].priority}

\* resource_name = 0 stands for None (no filter by name); resources are
\* named by their id
resource_permissions(tname, resource_name, role) ==
    order_by_priority_desc(
        {p \in role_permissions_query(role) :
            /\ table_name(p.gdi_oid_resource) = tname
            /\ (resource_name # 0 => p.gdi_oid_resource = resource_name)})

\* variant of role_permitted_ids that keeps the public ids of a role
role_permitted_ids_with_public(table_names, role) ==
    resource_ids(table_names, role)

\* ids used for filtering: the role's own ids, without the public ids
\* unless the role is the public role
role_permitted_ids(table_names, role) ==
    IF role # public_role
    THEN resource_ids(table_names, role) \ resource_ids(table_names, public_role)
    ELSE resource_ids(table_names, role)

(***************************************************************************)
(* OGC service permissions (ogc_service_config.py).                        *)
(***************************************************************************)
WmsTableNames ==
    {"wms_wfs", "ows_layer", "data_set_view", "data_set", "data_source",
     "data_set_view_attributes", "background_layer", "template"}
WfsTableNames ==
    {"wms_wfs", "ows_layer", "data_set_view", "data_set", "data_source",
     "data_set_view_attributes"}

\* names of the attributes of the view whose id is in ids, in view order
RECURSIVE permitted_attributes(_, _)
permitted_attributes(i, ids) ==
    IF i > num_attributes THEN <<>>
    ELSE (IF attributes[i].gdi_oid \in ids THEN <<attributes[i].name>> ELSE <<>>)
         \o permitted_attributes(i + 1, ids)

\* one entry of a permitted layer list
LayerEntry(name, has_attrs, attrs, has_tpl, tpl) ==
    [name |-> name, has_attributes |-> has_attrs, attributes |-> attrs,
     has_info_template |-> has_tpl, info_template |-> tpl]

\* variant of wms_layer_permitted that accepts public grants for the layer,
\* its view and its data set as well
wms_layer_permitted_role_or_public(layer, permitted_ids, public_ids) ==
    {layer, DataSetViewId, DataSetId, DataSourceId}
        \subseteq permitted_ids \cup public_ids

\* a data layer and its required resources are permitted
wms_layer_permitted(layer, permitted_ids, public_ids) ==
    /\ layer \in permitted_ids
    /\ DataSetViewId \in permitted_ids
    /\ DataSetId \in permitted_ids
    /\ DataSourceId \in permitted_ids \cup public_ids

\* a public data layer with an info template
wms_layer_public_with_template(layer, public_ids) ==
    /\ layer \in templateinfo
    /\ layer \in public_ids
    /\ DataSetViewId \in public_ids
    /\ DataSetId \in public_ids
    /\ DataSourceId \in public_ids

\* attribute list of a permitted vector layer in the WMS permissions
wms_layer_attributes(permitted_ids) ==
    permitted_attributes(1, permitted_ids) \o <<"geometry">>

\* data layer branch of collect_wms_layer_permissions
wms_data_layer_permissions(layer, permitted_ids, public_ids) ==
    IF wms_layer_permitted(layer, permitted_ids, public_ids)
    THEN <<LayerEntry(layer,
                      connection_type = "database",
                      IF connection_type = "database"
                          THEN wms_layer_attributes(permitted_ids) ELSE <<>>,
                      layer \in templateinfo,
                      layer \in templateinfo /\ TemplateInfoId \in permitted_ids)>>
    ELSE IF /\ wms_layer_public_with_template(layer, public_ids)
            /\ layer \in templateinfo
            /\ TemplateInfoId \in permitted_ids
         THEN <<LayerEntry(layer, FALSE, <<>>, TRUE, TRUE)>>
         ELSE <<>>

\* variant of wms_group_permissions that adds the group in any case
wms_group_permissions_always(layer, sublayers) ==
    <<LayerEntry(layer, FALSE, <<>>, FALSE, FALSE)>> \o sublayers

\* group layer branch: the group is added if any sub layers are permitted
wms_group_permissions(layer, sublayers) ==
    IF sublayers # <<>>
    THEN <<LayerEntry(layer, FALSE, <<>>, FALSE, FALSE)>> \o sublayers
    ELSE <<>>

RECURSIVE collect_wms_layer_permissions(_, _, _)
RECURSIVE collect_wms_sublayers(_, _, _, _)
collect_wms_sublayers(layer, i, permitted_ids, public_ids) ==
    IF i > Len(sub_layers[layer]) THEN <<>>
    ELSE collect_wms_layer_permissions(sub_layers[layer][i], permitted_ids, public_ids)
         \o collect_wms_sublayers(layer, i + 1, permitted_ids, public_ids)

collect_wms_layer_permissions(layer, permitted_ids, public_ids) ==
    IF layer_type[layer] = "group"
    THEN wms_group_permissions(
             layer, collect_wms_sublayers(layer, 1, permitted_ids, public_ids))
    ELSE wms_data_layer_permissions(layer, permitted_ids, public_ids)

\* permitted internal print layers for background layers
permitted_print_layers(permitted_ids) ==
    IF BackgroundLayerId \in permitted_ids
    THEN <<LayerEntry(BackgroundLayerId, FALSE, <<>>, FALSE, FALSE)>>
    ELSE <<>>

permitted_print_templates(permitted_ids) ==
    IF TemplateQgisId \in permitted_ids THEN <<TemplateQgisId>> ELSE <<>>

wms_permissions(role) ==
    LET permitted_ids == role_permitted_ids(WmsTableNames, role)
        public_ids == resource_ids(WmsTableNames, public_role)
        layers == collect_wms_layer_permissions(RootLayer, permitted_ids, public_ids)
                      \o permitted_print_layers(permitted_ids)
        print_templates == permitted_print_templates(permitted_ids)
    IN  IF WmsId \notin permitted_ids \cup public_ids THEN <<>>
        ELSE IF layers # <<>> \/ print_templates # <<>>
             THEN <<[name |-> WmsId, layers |-> layers,
                     print_templates |-> print_templates]>>
             ELSE <<>>

\* a data layer and its required resources are permitted (WFS)
wfs_layer_permitted(layer, permitted_ids, public_ids) ==
    /\ layer \in permitted_ids
    /\ DataSetViewId \in permitted_ids
    /\ DataSetId \in permitted_ids
    /\ DataSourceId \in permitted_ids \cup public_ids

\* data layer branch of collect_wfs_layer_permissions: only vector layers
\* are listed; the primary key put first is overwritten by the attribute list
wfs_data_layer_permissions(layer, permitted_ids, public_ids) ==
    IF /\ wfs_layer_permitted(layer, permitted_ids, public_ids)
       /\ connection_type = "database"
    THEN <<LayerEntry(layer, TRUE,
                      permitted_attributes(1, permitted_ids) \o <<"geometry">>,
                      FALSE, FALSE)>>
    ELSE <<>>

RECURSIVE collect_wfs_layer_permissions(_, _, _)
RECURSIVE collect_wfs_sublayers(_, _, _, _)
collect_wfs_sublayers(layer, i, permitted_ids, public_ids) ==
    IF i > Len(sub_layers[layer]) THEN <<>>
    ELSE collect_wfs_layer_permissions(sub_layers[layer][i], permitted_ids, public_ids)
         \o collect_wfs_sublayers(layer, i + 1, permitted_ids, public_ids)

collect_wfs_layer_permissions(layer, permitted_ids, public_ids) ==
    IF layer_type[layer] = "group"
    THEN collect_wfs_sublayers(layer, 1, permitted_ids, public_ids)
    ELSE wfs_data_layer_permissions(layer, permitted_ids, public_ids)

wfs_permissions(role) ==
    LET permitted_ids == role_permitted_ids(WfsTableNames, role)
        public_ids == resource_ids(WfsTableNames, public_role)
        layers == collect_wfs_layer_permissions(RootLayer, permitted_ids, public_ids)
    IN  IF WfsId \notin permitted_ids \cup public_ids THEN <<>>
        ELSE IF layers # <<>>
             THEN <<[name |-> WfsId, layers |-> layers]>>
             ELSE <<>>

(***************************************************************************)
(* Dataproduct service permissions (dataproduct_service_config.py).        *)
(***************************************************************************)
DataproductTableNames == {"ows_layer", "data_set_view", "data_set", "data_source"}

\* ascending list of a finite set of integers
RECURSIVE sorted(_)
sorted(S) ==
    IF S = {} THEN <<>>
    ELSE LET m == CHOOSE x \in S : \A y \in S : x <= y
         IN  <<m>> \o sorted(S \ {m})

\* a group is added if any of its sub layers is permitted
dataproduct_group_permissions(layer, sublayers, perms) ==
    IF sublayers # <<>> THEN perms \cup {layer} ELSE perms

\* a data layer is added if its own id is permitted
dataproduct_data_permissions(layer, permitted_ids, perms) ==
    IF layer \in permitted_ids THEN perms \cup {layer} ELSE perms

\* _collect_layer_permissions updates the shared set of permitted names;
\* acc = [perms, sublayers] while looping over the sub layers of a group
RECURSIVE _collect_layer_permissions(_, _, _)
RECURSIVE _collect_sub_layer_permissions(_, _, _, _)
_collect_sub_layer_permissions(layer, i, permitted_ids, acc) ==
    IF i > Len(sub_layers[layer]) THEN acc
    ELSE LET sub_layer == sub_layers[layer][i]
             perms == _collect_layer_permissions(sub_layer, permitted_ids, acc.perms)
         IN  _collect_sub_layer_permissions(
                 layer, i + 1, permitted_ids,
                 [perms |-> perms,
                  sublayers |-> IF sub_layer \in perms
                                THEN Append(acc.sublayers, sub_layer)
                                ELSE acc.sublayers])

_collect_layer_permissions(ows_layer, permitted_ids, perms) ==
    IF layer_type[ows_layer] = "group"
    THEN LET acc == _collect_sub_layer_permissions(
                        ows_layer, 1, permitted_ids,
                        [perms |-> perms, sublayers |-> <<>>])
         IN  dataproduct_group_permissions(ows_layer, acc.sublayers, acc.perms)
    ELSE dataproduct_data_permissions(ows_layer, permitted_ids, perms)

\* loop over all OWS layers in name order
RECURSIVE _collect_all_layer_permissions(_, _, _)
_collect_all_layer_permissions(i, permitted_ids, perms) ==
    IF i > NumLayers THEN perms
    ELSE _collect_all_layer_permissions(
             i + 1, permitted_ids,
             _collect_layer_permissions(i, permitted_ids, perms))

_dataproduct_permissions(role) ==
    LET ids == resource_ids(DataproductTableNames, role)
        layer_perms == _collect_all_layer_permissions(1, ids, {})
        \* permitted DataSetViews without OWSLayers
        basic == IF /\ DataSetViewId \in ids
                    /\ \A l \in LayerIds : layer_type[l] # "data"
                 THEN {DataSetViewId} ELSE {}
    IN  sorted(layer_perms \cup basic)

(***************************************************************************)
(* Data service permissions (data_service_config.py).                      *)
(***************************************************************************)
DataTableNames ==
    {"data_set_edit", "data_set_view", "data_set", "data_source",
     "data_set_view_attributes"}

\* variant of writeable_datasets in which the last row alone decides
writeable_datasets_last_row(rows, i, names) ==
    IF rows # <<>> /\ rows[Len(rows)].write
    THEN {rows[Len(rows)].gdi_oid_resource}
    ELSE {}

\* names of the edit datasets with a write grant, collected in the order
\* of the permission rows
RECURSIVE writeable_datasets(_, _, _)
writeable_datasets(rows, i, names) ==
    IF i > Len(rows) THEN names
    ELSE writeable_datasets(
             rows, i + 1,
             IF rows[i].write /\ rows[i].gdi_oid_resource \notin names
             THEN names \cup {rows[i].gdi_oid_resource}
             ELSE names)

\* the edit dataset and its required resources are permitted
dataset_edit_permitted(role_and_public_ids) ==
    /\ DataSetEditId \in role_and_public_ids
    /\ DataSetViewId \in role_and_public_ids
    /\ DataSetId \in role_and_public_ids
    /\ DataSourceId \in role_and_public_ids

\* variant of dataset_attributes that lists every attribute of the view
dataset_attributes_unfiltered(permitted_ids) ==
    permitted_attributes(1, AttrIds)

\* attribute names listed for the edit dataset
dataset_attributes(permitted_ids) == permitted_attributes(1, permitted_ids)

\* CRUD permissions of one edit dataset
dataset_permissions(name, attrs, writable) ==
    [name |-> name, attributes |-> attrs, writable |-> writable,
     creatable |-> writable, readable |-> TRUE, updatable |-> writable,
     deletable |-> writable]

\* variant of dataset_added that adds every permitted edit dataset
dataset_added_always(attrs, writable) == TRUE

\* only additional permissions are added
dataset_added(attrs, writable) == attrs # <<>> \/ writable

\* rows: the edit permissions of the role as returned by the query
_dataset_permissions(role, rows) ==
    LET role_ids == resource_ids(DataTableNames, role)
        public_ids == resource_ids(DataTableNames, public_role)
        role_and_public_ids == role_ids \cup public_ids
        permitted_ids == role_permitted_ids(DataTableNames, role)
        writeable == writeable_datasets(rows, 1, {})
        attrs == dataset_attributes(permitted_ids)
        writable == DataSetEditId \in writeable
    IN  IF /\ dataset_edit_permitted(role_and_public_ids)
           /\ dataset_added(attrs, writable)
        THEN <<dataset_permissions(DataSetEditId, attrs, writable)>>
        ELSE <<>>

(***************************************************************************)
(* Contents of the ConfigDB considered by the model.                       *)
(***************************************************************************)
reverse(s) == [i \in 1..Len(s) |-> s[Len(s) + 1 - i]]

\* a read grant of a role on a resource
Grant(role, id) ==
    [role |-> role, gdi_oid_resource |-> id, write |-> FALSE, priority |-> 1]

\* a grant of a role on the edit dataset
EditGrant(role, priority, write) ==
    [role |-> role, gdi_oid_resource |-> DataSetEditId, write |-> write,
     priority |-> priority]

\* grant rows for a function from resource ids to
\* "none", "role" (editor only), "public" (public only) or "both"
GrantRows(cls) ==
    {Grant("editor", i) : i \in {j \in DOMAIN cls : cls[j] \in {"role", "both"}}}
    \cup {Grant(public_role, i) : i \in {j \in DOMAIN cls : cls[j] \in {"public", "both"}}}

EditGrantSets(role, maxp, maxn) ==
    {S \in SUBSET {EditGrant(role, p, w) : p \in 1..maxp, w \in BOOLEAN} :
        Cardinality(S) <= maxn}

\* layer trees: every layer but the root has one parent group with a
\* smaller id; sub layers are ordered by ascending or descending id
LayerTypes == {t \in [LayerIds -> {"group", "data"}] : t[RootLayer] = "group"}
Parents(t) ==
    {p \in [LayerIds \ {RootLayer} -> LayerIds] :
        \A l \in LayerIds \ {RootLayer} : p[l] < l /\ t[p[l]] = "group"}
SubLayers(t, p, asc) ==
    [g \in LayerIds |->
        IF t[g] = "group"
        THEN LET children == sorted({l \in DOMAIN p : p[l] = g})
             IN  IF asc THEN children ELSE reverse(children)
        ELSE <<>>]
Trees ==
    UNION {{[layer_type |-> t, sub_layers |-> SubLayers(t, p, asc)] :
               p \in Parents(t), asc \in BOOLEAN} : t \in LayerTypes}

\* the root group with all other layers as its data layers
FlatTree ==
    [layer_type |-> [l \in LayerIds |-> IF l = RootLayer THEN "group" ELSE "data"],
     sub_layers |-> [l \in LayerIds |->
                       IF l = RootLayer THEN sorted(LayerIds \ {RootLayer}) ELSE <<>>]]

ChainIds == {DataSetViewId, DataSetId, DataSourceId}
GrantedIds == ResourceIds \ {DataSetEditId}
FirstDataLayer == RootLayer + 1

\* geometry_columns.type of a registered geometry column, as its words:
\* <<"MULTI", "POLYGON">> is 'MULTIPOLYGON'
GeometryTypes ==
    {<<"POINT">>, <<"LINESTRING">>, <<"POLYGON">>, <<"MULTI", "POINT">>,
     <<"MULTI", "LINESTRING">>, <<"MULTI", "POLYGON">>, <<"GEOMETRY">>,
     <<"GEOMETRY", "COLLECTION">>}

\* number of edit datasets in the ConfigDB
NumDataSetViews == 2

\* a row of geometry_columns
GeometryColumn(name, type, srid) ==
    [f_geometry_column |-> name, type |-> type, srid |-> srid]
GeomA == GeometryColumn("geom_a", <<"POINT">>, "EPSG:2056")
GeomB == GeometryColumn("geom_b", <<"MULTI", "POLYGON">>, "EPSG:4326")

\* the geometry_columns rows of a table, in the order the GeoDB returns them
Catalogs ==
    {<<>>, <<GeomA, GeomB>>, <<GeomB, GeomA>>}
    \cup {<<GeometryColumn("geom_a", t, "EPSG:2056")>> : t \in GeometryTypes}

\* a table of the GeoDB that answers every query
OkTable == [connect |-> "ok", pkey |-> "row", geometry |-> "rows", catalog |-> <<GeomA>>]

\* the answers of a table: the connect and the two catalog queries succeed
\* or raise, and the queries find rows or none
Tables ==
    {[OkTable EXCEPT !.connect = "error"], [OkTable EXCEPT !.pkey = "error"]}
    \cup {[OkTable EXCEPT !.pkey = k, !.geometry = g, !.catalog = c] :
             k \in {"row", "none"}, g \in {"rows", "error"}, c \in {<<>>, <<GeomA>>}}

\* edit dataset i with its Dataset View, Data Set and Data Source
OkView(i) ==
    [name |-> i, write |-> TRUE, primary_key |-> FALSE, geometry_column |-> "",
     attributes |-> <<"attr_a">>, data_set_name |-> "schema.table",
     data_source |-> "found", table |-> OkTable,
     searchable |-> 0, facet |-> "", filter_word |-> "",
     column |-> [data_type |-> "text", numeric_precision |-> 0, numeric_scale |-> 0]]

\* edit datasets whose introspection fails in some way
FailureViews(i) ==
    {[OkView(i) EXCEPT !.table = t, !.primary_key = k] : t \in Tables, k \in BOOLEAN}
    \cup {[OkView(i) EXCEPT !.data_set_name = n] : n \in {"", "None", "table"}}
    \cup {[OkView(i) EXCEPT !.data_source = "missing"]}

\* edit datasets over every catalog, with and without a named geometry
\* column, attributes and write grants
GeometryViews(i) ==
    {[OkView(i) EXCEPT !.table.catalog = c, !.geometry_column = g, !.attributes = a,
                       !.write = w] :
        c \in Catalogs, g \in {"", "geom_a", "geom_b"}, a \in {<<>>, <<"attr_a">>},
        w \in BOOLEAN}

OkViews == [i \in 1..NumDataSetViews |-> OkView(i)]

\* largest precision and scale of a numeric column considered
MaxPrecision == 18
MaxScale == 2

\* edit datasets whose attributes are numeric columns of every precision
\* and scale; precision 0 stands for a numeric column without precision
NumericViews(i) ==
    {[OkView(i) EXCEPT !.column = [data_type |-> "numeric", numeric_precision |-> n,
                                   numeric_scale |-> d]] :
        n \in 0..MaxPrecision, d \in 0..MaxScale}

\* edit datasets whose view is not searchable, searchable or searchable by
\* default, under every facet and filter word
SearchViews(i) ==
    {OkView(i)}
    \cup {[OkView(i) EXCEPT !.searchable = n, !.facet = f, !.filter_word = w] :
             n \in {1, 2}, f \in {"A", "B", "foreground"}, w \in {"x", "y", "Karte"}}

SearchViewLists ==
    {vs \in [1..NumDataSetViews -> UNION {SearchViews(i) : i \in 1..NumDataSetViews}] :
        \A i \in 1..NumDataSetViews : vs[i].name = i}

DataSetViewLists ==
    UNION {{[OkViews EXCEPT ![i] = v] : v \in NumericViews(i)} :
             i \in 1..NumDataSetViews}
    \cup {vs \in [1..NumDataSetViews -> UNION {FailureViews(i) : i \in 1..NumDataSetViews}] :
        \A i \in 1..NumDataSetViews : vs[i].name = i}
    \cup UNION {{[OkViews EXCEPT ![i] = v] : v \in GeometryViews(i)} :
                  i \in 1..NumDataSetViews}

\* the GeoDB answers every query of a layer
GeoDbOk ==
    [connect |-> "ok", geometry |-> "row", pkey |-> "row", extent |-> "row",
     catalog |-> <<GeomA>>, geometry_column |-> ""]

Database(tree, tpl, conn, rows) ==
    [layer_type |-> tree.layer_type, sub_layers |-> tree.sub_layers,
     wms_wfs |-> {"WMS", "WFS"},
     facade |-> [l \in LayerIds |-> FALSE],
     layer_transparency |-> [l \in LayerIds |-> 0], num_attributes |-> NumAttrs,
     templateinfo |-> tpl, connection_type |-> conn, connection |-> "postgresql:",
     qgs_style |-> [l \in LayerIds |-> "valid"], data_set_views |-> OkViews,
     geodb |-> [l \in LayerIds |-> GeoDbOk],
     resource_permission |-> rows]

\* every tree, every grant on the layers; the view, data set, data source
\* and attributes are granted together
TreeDatabases ==
    [tree : Trees, lc : [LayerIds -> {"none", "role", "public"}],
     chain : {"role", "public"}]

\* the database of one choice of TreeDatabases
TreeDatabase(choice) ==
    Database(choice.tree, {}, "database",
        GrantRows([id \in GrantedIds |->
            IF id \in LayerIds THEN choice.lc[id]
            ELSE IF id \in ChainIds \cup AttrIds THEN choice.chain
            ELSE IF id \in {WmsId, WfsId} THEN "public"
            ELSE "none"]))

\* one tree, every grant on a data layer and on each of its required
\* resources, on the services, the info template and the print resources
ChainDatabases ==
    [cc : [1..4 -> {"none", "role", "public", "both"}],
     tpl : {[layers |-> {}, cls |-> "none"]}
           \cup {[layers |-> {FirstDataLayer}, cls |-> c] :
                    c \in {"none", "role", "public"}},
     conn : {"database", "directory"},
     svc : {"none", "role", "public"},
     print : {"none", "role"}]

\* the database of one choice of ChainDatabases
ChainDatabase(choice) ==
    Database(FlatTree, choice.tpl.layers, choice.conn,
        GrantRows([id \in GrantedIds |->
            IF id = FirstDataLayer THEN choice.cc[1]
            ELSE IF id = DataSetViewId THEN choice.cc[2]
            ELSE IF id = DataSetId THEN choice.cc[3]
            ELSE IF id = DataSourceId THEN choice.cc[4]
            ELSE IF id = TemplateInfoId THEN choice.tpl.cls
            ELSE IF id \in {WmsId, WfsId} THEN choice.svc
            ELSE IF id \in {BackgroundLayerId, TemplateQgisId} THEN choice.print
            ELSE IF id \in AttrIds THEN "role"
            ELSE "none"]))

\* one tree, every grant on each attribute
AttrDatabases ==
    [chain : {"role", "public", "both"},
     ac : [AttrIds -> {"none", "role", "public", "both"}],
     er : EditGrantSets("editor", 1, 1),
     ep : EditGrantSets(public_role, 1, 1)]

\* the database of one choice of AttrDatabases
AttrDatabase(choice) ==
    Database(FlatTree, {}, "database",
        GrantRows([id \in GrantedIds |->
            IF id \in {FirstDataLayer} \cup ChainIds THEN choice.chain
            ELSE IF id \in AttrIds THEN choice.ac[id]
            ELSE IF id \in {WmsId, WfsId} THEN "public"
            ELSE "none"])
        \cup choice.er \cup choice.ep)

\* one tree, every set of grants on the edit dataset
EditDatabases ==
    [chain : {"none", "public"},
     ac : {"none", "role"},
     er : EditGrantSets("editor", MaxPriority, MaxGrants),
     ep : EditGrantSets(public_role, 1, 1)]

\* the database of one choice of EditDatabases
EditDatabase(choice) ==
    Database(FlatTree, {}, "database",
        GrantRows([id \in GrantedIds |->
            IF id \in ChainIds THEN choice.chain
            ELSE IF id \in AttrIds THEN choice.ac
            ELSE "none"])
        \cup choice.er \cup choice.ep)

(***************************************************************************)
(* ConfigGenerator.write_permissions: the handlers of the configured       *)
(* services are asked in turn for the permissions of every role.           *)
(***************************************************************************)
\* a handler before its first permissions() call
NoSession == [shared |-> "none", opened |-> 0]

NoPermissions ==
    [wms_services |-> <<>>, wfs_services |-> <<>>, dataproducts |-> <<>>,
     data_datasets |-> <<>>]

RoleSet == {Roles[i] : i \in DOMAIN Roles}
ServiceSet == {Services[i] : i \in DOMAIN Services}

InitDatabase(db) ==
    /\ layer_type = db.layer_type
    /\ facade = db.facade
    /\ layer_transparency = db.layer_transparency
    /\ num_attributes = db.num_attributes
    /\ sub_layers = db.sub_layers
    /\ wms_wfs = db.wms_wfs
    /\ templateinfo = db.templateinfo
    /\ connection_type = db.connection_type
    /\ connection = db.connection
    /\ qgs_style = db.qgs_style
    /\ geodb = db.geodb
    /\ resource_permission = db.resource_permission
    /\ data_set_views = db.data_set_views

InitRun ==
    /\ svc_idx = 1
    /\ role_idx = 1
    /\ run = "running"
    /\ permissions = [r \in RoleSet |-> NoPermissions]
    /\ collected = {}
    /\ session = [s \in ServiceSet |-> NoSession]
    /\ edit_permissions = [r \in RoleSet |-> <<>>]
    /\ filter_ids = [r \in RoleSet |-> [table_names |-> {}, ids |-> {}]]
    /\ logger = <<>>

InitCfgIdle ==
    /\ cfg_services = <<>>
    /\ cfg_idx = 1
    /\ cfg_step = "idle"
    /\ config = [service |-> "none"]
    /\ cfg_session = {}
    /\ files = <<>>
    /\ cfg_raised = "none"

\* the application before any request has arrived
InitSrvIdle ==
    /\ requests = <<>>
    /\ generators = 0
    /\ engines = {}
    /\ sessions = <<>>
    /\ self_session = <<>>

InitQgsIdle ==
    /\ stack = <<>>
    /\ step = "idle"
    /\ vectorlayerids = [is_wms \in BOOLEAN |-> <<>>]
    /\ uuids = 0
    /\ qgs_result = [is_wms \in BOOLEAN |-> [type |-> "none"]]
    /\ qgs_raised = "none"
    /\ qgs_session = "none"
    /\ qgs_files = <<>>

Init ==
    /\ \/ \E choice \in TreeDatabases : InitDatabase(TreeDatabase(choice))
       \/ \E choice \in ChainDatabases : InitDatabase(ChainDatabase(choice))
       \/ \E choice \in AttrDatabases : InitDatabase(AttrDatabase(choice))
       \/ \E choice \in EditDatabases : InitDatabase(EditDatabase(choice))
    /\ InitRun
    /\ InitQgsIdle
    /\ InitCfgIdle
    /\ InitSrvIdle

\* the loops "for service_config in services" / "for role in roles"
NextRole ==
    IF role_idx < Len(Roles)
    THEN /\ role_idx' = role_idx + 1
         /\ svc_idx' = svc_idx
         /\ run' = run
    ELSE /\ role_idx' = 1
         /\ IF svc_idx < Len(Services)
            THEN svc_idx' = svc_idx + 1 /\ run' = run
            ELSE svc_idx' = svc_idx /\ run' = "done"

\* the handler creates its shared session on its first call
SharedSession(service) ==
    IF session[service].shared = "none"
    THEN [session EXCEPT ![service] = [shared |-> "open", opened |-> @.opened + 1]]
    ELSE session

\* the handler opens a session of its own in every call
OwnSession(service) == [session EXCEPT ![service].opened = @ + 1]

\* a failing query of the ConfigDB raises out of the handler and out of
\* write_permissions
QueryRaises(service) ==
    /\ run' = "raised"
    /\ session' = SharedSession(service)
    /\ UNCHANGED <<svc_idx, role_idx, permissions, collected, edit_permissions,
                   filter_ids, logger>>

Merged(service, role) == collected \cup {<<service, role>>}

\* PrintServiceConfig.permissions: the permitted print templates are read
\* in a session of this call, closed when the query returned; the ConfigDB
\* considered holds no template_qgis rows, the merge adds no template
PrintPermissions ==
    /\ run = "running"
    /\ Services[svc_idx] = "print"
    /\ LET role == Roles[role_idx]
       IN  \E store_ok \in BOOLEAN :
             /\ session' = OwnSession("print")
             /\ IF store_ok
                THEN /\ collected' = Merged("print", role)
                     /\ NextRole
                ELSE /\ run' = "raised"
                     /\ UNCHANGED <<svc_idx, role_idx, collected>>
             /\ UNCHANGED <<permissions, edit_permissions, filter_ids, logger>>
    /\ UNCHANGED <<dbvars, srvvars, prjvars, cfgvars, qgsvars>>

OgcPermissions ==
    /\ run = "running"
    /\ Services[svc_idx] = "ogc"
    /\ LET role == Roles[role_idx]
       IN  \E store_ok \in BOOLEAN :
             IF store_ok
             THEN /\ permissions' = [permissions EXCEPT
                        ![role].wms_services = wms_permissions(role),
                        ![role].wfs_services = wfs_permissions(role)]
                  /\ filter_ids' = [filter_ids EXCEPT ![role] =
                        [table_names |-> WmsTableNames,
                         ids |-> role_permitted_ids(WmsTableNames, role)]]
                  /\ collected' = Merged("ogc", role)
                  /\ session' = SharedSession("ogc")
                  /\ NextRole
                  /\ UNCHANGED <<edit_permissions, logger>>
             ELSE QueryRaises("ogc")
    /\ UNCHANGED <<dbvars, srvvars, prjvars, cfgvars, qgsvars>>

DataproductPermissions ==
    /\ run = "running"
    /\ Services[svc_idx] = "dataproduct"
    /\ LET role == Roles[role_idx]
       IN  \E store_ok \in BOOLEAN :
             IF store_ok
             THEN /\ permissions' = [permissions EXCEPT
                        ![role].dataproducts = _dataproduct_permissions(role)]
                  /\ collected' = Merged("dataproduct", role)
                  /\ session' = SharedSession("dataproduct")
                  /\ NextRole
                  /\ UNCHANGED <<edit_permissions, filter_ids, logger>>
             ELSE QueryRaises("dataproduct")
    /\ UNCHANGED <<dbvars, srvvars, prjvars, cfgvars, qgsvars>>

DataPermissions ==
    /\ run = "running"
    /\ Services[svc_idx] = "data"
    /\ LET role == Roles[role_idx]
       IN  \E store_ok \in BOOLEAN :
             IF store_ok
             THEN \E rows \in resource_permissions("data_set_edit", 0, role) :
                  /\ permissions' = [permissions EXCEPT
                        ![role].data_datasets = _dataset_permissions(role, rows)]
                  /\ edit_permissions' = [edit_permissions EXCEPT ![role] = rows]
                  /\ filter_ids' = [filter_ids EXCEPT ![role] =
                        [table_names |-> DataTableNames,
                         ids |-> role_permitted_ids(DataTableNames, role)]]
                  /\ collected' = Merged("data", role)
                  /\ session' = SharedSession("data")
                  /\ NextRole
                  /\ UNCHANGED logger
             ELSE QueryRaises("data")
    /\ UNCHANGED <<dbvars, srvvars, prjvars, cfgvars, qgsvars>>

Next == PrintPermissions \/ OgcPermissions \/ DataproductPermissions \/ DataPermissions

Spec == Init /\ [][Next]_vars

(***************************************************************************)
(* Properties of the permission documents.                                 *)
(***************************************************************************)
\* ids on which a role holds a grant, read off the permission rows
Granted(role) ==
    {p.gdi_oid_resource : p \in {q \in resource_permission : q.role = role}}
RoleOrPublic(role) == Granted(role) \cup Granted("public")
\* what a role adds to the public grants; the public grants for "public"
Additional(role) ==
    IF role = "public" THEN Granted("public")
    ELSE Granted(role) \ Granted("public")

EntryNames(entries) == {entries[i].name : i \in DOMAIN entries}
LayerNames(services) ==
    UNION {EntryNames(services[i].layers) : i \in DOMAIN services}
WmsLayerNames(role) == LayerNames(permissions[role].wms_services)
WfsLayerNames(role) == LayerNames(permissions[role].wfs_services)
DataproductNames(role) ==
    {permissions[role].dataproducts[i] : i \in DOMAIN permissions[role].dataproducts}
DataLayers == {l \in LayerIds : layer_type[l] = "data"}
GroupLayers == {l \in LayerIds : layer_type[l] = "group"}
ChildrenOf(g) == {sub_layers[g][i] : i \in DOMAIN sub_layers[g]}
RequiredIds(l) == {l, DataSetViewId, DataSetId, DataSourceId}

\* the layer, its view and its data set are additional grants of the role
\* and the data source is granted to the role or to public
PermittedForRole(role, l) ==
    /\ {l, DataSetViewId, DataSetId} \subseteq Additional(role)
    /\ DataSourceId \in RoleOrPublic(role)
\* a public layer whose info template is an additional grant of the role
PublicWithRestrictedTemplate(role, l) ==
    /\ l \in templateinfo
    /\ TemplateInfoId \in Additional(role)
    /\ RequiredIds(l) \subseteq Granted("public")

\* C1 (as stated): in a permitted WMS, and for database layers in a
\* permitted WFS, a Data layer is listed for a role iff its own id and the
\* ids of its view, data set and data source are all granted to the role or
\* to public.
C1_IncludedIffRoleOrPublic ==
    \A role \in RoleSet : <<"ogc", role>> \in collected =>
        \A l \in DataLayers :
            /\ WmsId \in RoleOrPublic(role) =>
                  (l \in WmsLayerNames(role)
                      <=> RequiredIds(l) \subseteq RoleOrPublic(role))
            /\ (WfsId \in RoleOrPublic(role) /\ connection_type = "database") =>
                  (l \in WfsLayerNames(role)
                      <=> RequiredIds(l) \subseteq RoleOrPublic(role))

\* C1 (amended): a Data layer is listed in the WMS permissions of a role iff
\* the WMS is granted to the role or public and either the layer, its view
\* and its data set are additional grants of the role (grants of the role
\* that public does not hold; the public grants for the public role) and the
\* data source is granted to the role or public, or the layer is public with
\* all its required resources and its info template is an additional grant
\* of the role.  It is listed in the WFS permissions iff the WFS is granted,
\* the data source is a database and the first condition holds.
C1_IncludedIffAdditionalGrants ==
    \A role \in RoleSet : <<"ogc", role>> \in collected =>
        \A l \in DataLayers :
            /\ l \in WmsLayerNames(role)
                  <=> /\ WmsId \in RoleOrPublic(role)
                      /\ \/ PermittedForRole(role, l)
                         \/ PublicWithRestrictedTemplate(role, l)
            /\ l \in WfsLayerNames(role)
                  <=> /\ WfsId \in RoleOrPublic(role)
                      /\ connection_type = "database"
                      /\ PermittedForRole(role, l)

\* C1 witness: the editor role is given a layer in WMS and WFS whose data
\* source is granted to public only, and public is given none.
C1_Witness ==
    /\ <<"ogc", "editor">> \in collected
    /\ \E l \in DataLayers :
          /\ l \in WmsLayerNames("editor") \cap WfsLayerNames("editor")
          /\ DataSourceId \notin Granted("editor")
          /\ l \notin WmsLayerNames("public")

\* C2: a group layer is listed iff at least one of its sub layers is
\* listed, in the WMS permissions and in the dataproduct permissions; the
\* grants on the group itself do not matter.
C2_GroupIffChild ==
    \A role \in RoleSet : \A g \in GroupLayers :
        /\ <<"ogc", role>> \in collected =>
              (g \in WmsLayerNames(role)
                  <=> ChildrenOf(g) \cap WmsLayerNames(role) # {})
        /\ <<"dataproduct", role>> \in collected =>
              (g \in DataproductNames(role)
                  <=> ChildrenOf(g) \cap DataproductNames(role) # {})

\* C2 witness: a group without any grant has two sub layers of which
\* exactly one is listed, and the group is listed with it, for the same
\* role in both documents.
C2_Witness ==
    \E role \in RoleSet : \E g \in GroupLayers :
        /\ {<<"ogc", role>>, <<"dataproduct", role>>} \subseteq collected
        /\ g \notin RoleOrPublic(role)
        /\ Len(sub_layers[g]) = 2
        /\ Cardinality(ChildrenOf(g) \cap WmsLayerNames(role)) = 1
        /\ g \in WmsLayerNames(role)
        /\ Cardinality(ChildrenOf(g) \cap DataproductNames(role)) = 1
        /\ g \in DataproductNames(role)

\* grants of a role on the edit dataset
EditGrantsOf(role) ==
    {p \in resource_permission :
        p.role = role /\ p.gdi_oid_resource = DataSetEditId}
\* the grants of highest priority among them
TopEditGrantsOf(role) ==
    {p \in EditGrantsOf(role) :
        \A q \in EditGrantsOf(role) : q.priority <= p.priority}
DatasetEntries(role) ==
    {permissions[role].data_datasets[i] : i \in DOMAIN permissions[role].data_datasets}

\* C3 (as stated): an edit dataset is reported writable iff a grant of
\* highest priority of the role on it has its write flag set.
C3_WritableIffHighestPriorityWrites ==
    \A role \in RoleSet : <<"data", role>> \in collected =>
        \A e \in DatasetEntries(role) :
            e.writable <=> \E p \in TopEditGrantsOf(role) : p.write

\* C4: the id set a handler filters with is, for a non-public role, the
\* role's ids without the public ids, and so disjoint from the public ids;
\* for the public role it is the set of public ids.
C4_ExclusiveIdsDisjointFromPublic ==
    \A role \in RoleSet :
        LET T == filter_ids[role].table_names
            ids == filter_ids[role].ids
            OfType(S) == {id \in S : table_name(id) \in T}
        IN  T # {} =>
              IF role # "public"
              THEN /\ ids \cap OfType(Granted("public")) = {}
                   /\ ids = OfType(Granted(role)) \ OfType(Granted("public"))
              ELSE ids = OfType(Granted("public"))

\* C4 witness: the editor role holds a grant that public holds too and
\* one that public does not hold, and its filter ids were computed.
C4_Witness ==
    /\ filter_ids["editor"].table_names # {}
    /\ filter_ids["editor"].ids # {}
    /\ \E id \in Granted("editor") \cap Granted("public") :
          table_name(id) \in filter_ids["editor"].table_names

\* C5: when the edit dataset and its required resources are granted and
\* every grant of highest priority of the role on the edit dataset has
\* write set, the dataset is reported writable, in whatever order the
\* store returned the grants.
C5_HighestPriorityWriteWins ==
    \A role \in RoleSet :
        (/\ <<"data", role>> \in collected
         /\ {DataSetViewId, DataSetId, DataSourceId} \subseteq RoleOrPublic(role)
         /\ EditGrantsOf(role) # {}
         /\ \A p \in TopEditGrantsOf(role) : p.write)
        => \E e \in DatasetEntries(role) : e.name = DataSetEditId /\ e.writable

\* C5 witness: the store returned a write grant of priority 2 and a
\* read-only grant of priority 1, and the dataset is writable.
C5_Witness ==
    /\ <<"data", "editor">> \in collected
    /\ Len(edit_permissions["editor"]) = 2
    /\ \E i, j \in 1..2 :
          /\ edit_permissions["editor"][i].priority = 2
          /\ edit_permissions["editor"][i].write
          /\ edit_permissions["editor"][j].priority = 1
          /\ ~edit_permissions["editor"][j].write
    /\ \E e \in DatasetEntries("editor") : e.writable

\* C6: every dataset entry has creatable = updatable = deletable =
\* writable and readable = TRUE, lists an attribute or is writable, and
\* belongs to an edit dataset that is granted with its view, data set and
\* data source to the role or to public.
C6_DatasetEntryShape ==
    \A role \in RoleSet : <<"data", role>> \in collected =>
        \A e \in DatasetEntries(role) :
            /\ e.creatable = e.writable
            /\ e.updatable = e.writable
            /\ e.deletable = e.writable
            /\ e.readable = TRUE
            /\ (e.attributes # <<>> \/ e.writable)
            /\ e.name = DataSetEditId
            /\ RequiredIds(DataSetEditId) \subseteq RoleOrPublic(role)

\* C6 witness: one role has a read-only entry with attributes, the other
\* a writable entry without attributes.
C6_Witness ==
    /\ \E e \in DatasetEntries("editor") : e.writable /\ e.attributes = <<>>
    /\ \E e \in DatasetEntries("public") : ~e.writable /\ e.attributes # <<>>

\* names of the attributes whose id is in ids, as a set
AttrNamesIn(ids) == {attributes[i].name : i \in {j \in 1..NumAttrs : attributes[j].gdi_oid \in ids}}
ListedAttrs(e) == {e.attributes[i] : i \in DOMAIN e.attributes} \ {"geometry"}
ServiceEntries(services) ==
    UNION {{services[i].layers[j] : j \in DOMAIN services[i].layers} :
              i \in DOMAIN services}
OgcEntries(role) ==
    ServiceEntries(permissions[role].wms_services)
        \cup ServiceEntries(permissions[role].wfs_services)

C8_QueryFailureNeverPropagates == run # "raised"

(***************************************************************************)
(* QGSWriter.collect_layers (qgs_writer.py): the recursive collection of   *)
(* the layer tree of a QGIS project, one call frame per layer.             *)
(***************************************************************************)
\* answers of the GeoDB to the queries of one layer; a query that is never
\* reached because an earlier step failed is "unasked".  pkey = "explicit":
\* the data set names its primary key and no query is made.
GeoDbAnswers ==
    {[connect |-> "OperationalError", geometry |-> "unasked", pkey |-> "unasked",
      extent |-> "unasked", catalog |-> <<GeomA>>, geometry_column |-> ""]}
    \cup {[connect |-> "ok", geometry |-> g, pkey |-> "unasked", extent |-> "unasked",
           catalog |-> <<GeomA>>, geometry_column |-> ""] : g \in {"none", "error"}}
    \cup {[connect |-> "ok", geometry |-> "row", pkey |-> k, extent |-> "unasked",
           catalog |-> <<GeomA>>, geometry_column |-> ""] : k \in {"none", "error"}}
    \cup {[connect |-> "ok", geometry |-> "row", pkey |-> k, extent |-> e,
           catalog |-> <<GeomA>>, geometry_column |-> ""] :
             k \in {"explicit", "row"}, e \in {"row", "null", "error"}}

\* str.lower() of the words of a geometry type
lower(type) ==
    [i \in DOMAIN type |->
        CASE type[i] = "POINT" -> "point"
          [] type[i] = "LINESTRING" -> "linestring"
          [] type[i] = "POLYGON" -> "polygon"
          [] type[i] = "MULTI" -> "multi"
          [] type[i] = "GEOMETRY" -> "geometry"
          [] type[i] = "COLLECTION" -> "collection"]

\* re.sub('^multi', "", geometry_type.lower())
singletype(geometry_type) ==
    LET lowered == lower(geometry_type)
    IN  IF lowered # <<>> /\ Head(lowered) = "multi" THEN Tail(lowered) ELSE lowered

\* the built-in default styles, by key
default_styles ==
    [k \in {<<"point">>, <<"linestring">>, <<"polygon">>, <<"raster">>} |->
        <<"qgs", k[1], "qml">>]

QgsDatabase(layers, subs, conn, scheme, style, answers) ==
    [layer_type |-> layers, sub_layers |-> subs, templateinfo |-> {},
     wms_wfs |-> {"WMS", "WFS"},
     facade |-> [l \in LayerIds |-> FALSE],
     layer_transparency |-> [l \in LayerIds |-> 0], num_attributes |-> NumAttrs,
     connection_type |-> conn, connection |-> scheme, qgs_style |-> style,
     geodb |-> answers, resource_permission |-> {}, data_set_views |-> OkViews]

\* one tree, every answer of the GeoDB for each layer
QgsFlatDatabases ==
    {QgsDatabase(FlatTree.layer_type, FlatTree.sub_layers, "database", "postgresql:",
                 [l \in LayerIds |-> style], answers) :
        style \in {"valid", "invalid"},
        answers \in {a \in [LayerIds -> GeoDbAnswers] : a[RootLayer] = GeoDbOk}}

\* kinds of data source
DataSourceKinds ==
    {[connection_type |-> "database", connection |-> "postgresql:"],
     [connection_type |-> "database", connection |-> "oracle:"],
     [connection_type |-> "directory", connection |-> "/data"],
     [connection_type |-> "wms", connection |-> "http:"]}

\* every tree, every kind of data source, the same answers for all layers
QgsTreeDatabases ==
    {QgsDatabase(tree.layer_type, tree.sub_layers, kind.connection_type,
                 kind.connection, [l \in LayerIds |-> style],
                 [l \in LayerIds |-> answer]) :
        tree \in Trees, kind \in DataSourceKinds, style \in {"valid", "invalid"},
        answer \in GeoDbAnswers}

\* every tree with one more child edge from a group to a group that is not
\* below it: the parent/child edges then contain a cycle
QgsCyclicDatabases ==
    UNION {{QgsDatabase(tree.layer_type,
                        [tree.sub_layers EXCEPT ![g] = Append(@, a)],
                        "database", "postgresql:", [l \in LayerIds |-> "valid"],
                        [l \in LayerIds |-> GeoDbOk]) :
               g \in {l \in LayerIds : tree.layer_type[l] = "group"},
               a \in {l \in LayerIds : tree.layer_type[l] = "group"}} :
           tree \in Trees}

\* one tree of readable tables or of files: every geometry type, with and
\* without a usable style document
QgsStyleDatabases ==
    [kind : {k \in DataSourceKinds :
                k.connection_type = "directory" \/ k.connection = "postgresql:"},
     style : {y \in [LayerIds -> {"valid", "invalid"}] : y[RootLayer] = "valid"},
     types : {t \in [LayerIds -> GeometryTypes] : t[RootLayer] = <<"POINT">>}]

\* the database of one choice of QgsStyleDatabases
QgsStyleDatabase(choice) ==
    QgsDatabase(FlatTree.layer_type, FlatTree.sub_layers, choice.kind.connection_type,
                choice.kind.connection, choice.style,
                [l \in LayerIds |->
                    [GeoDbOk EXCEPT
                        !.catalog = <<GeometryColumn("geom_a", choice.types[l],
                                                     "EPSG:2056")>>]])

\* one tree of readable tables with one or two geometry columns, with and
\* without a geometry column named by the Dataset View
QgsGeometryDatabases ==
    [LayerIds -> [catalog : {<<GeomA>>, <<GeomA, GeomB>>, <<GeomB, GeomA>>},
                  geometry_column : {"", "geom_a", "geom_b"}]]

\* the database of one choice of QgsGeometryDatabases
QgsGeometryDatabase(tables) ==
    QgsDatabase(FlatTree.layer_type, FlatTree.sub_layers, "database", "postgresql:",
                [l \in LayerIds |-> "valid"],
                [l \in LayerIds |->
                    [GeoDbOk EXCEPT !.catalog = tables[l].catalog,
                                    !.geometry_column = tables[l].geometry_column]])

\* the wms_wfs table without the WMS, without the WFS or without both
QgsServiceDatabases ==
    {[db EXCEPT !.wms_wfs = services] :
        db \in QgsFlatDatabases,
        services \in (SUBSET {"WMS", "WFS"}) \ {{"WMS", "WFS"}}}

QgsDatabases ==
    QgsFlatDatabases \cup QgsTreeDatabases \cup QgsCyclicDatabases

\* call frame of collect_layers
Frame(layer, is_wms) ==
    [layer |-> layer, is_wms |-> is_wms, idx |-> 0, items |-> <<>>,
     layerid |-> 0, geometry |-> <<>>, extent |-> "unset"]
Top == stack[Len(stack)]

GroupResult(layer, items) == [type |-> "group", name |-> layer, items |-> items]
LayerResult(layer, layerid, layertype, provider, datasource, extent, style) ==
    [type |-> "layer", name |-> layer, id |-> layerid, layertype |-> layertype,
     provider |-> provider, datasource |-> datasource, extent |-> extent,
     style |-> style]
\* the empty placeholder {}
EmptyResult == [type |-> "empty"]

LogEntry(level, layer, msg) == [level |-> level, layer |-> layer, msg |-> msg]

\* the frame on top of the stack returns value to its caller
Return(value) ==
    IF Len(stack) = 1
    THEN /\ stack' = <<>>
         /\ qgs_result' = [qgs_result EXCEPT ![Top.is_wms] = value]
         /\ step' = IF Top.is_wms THEN "wms_done" ELSE "done"
    ELSE /\ stack' = [SubSeq(stack, 1, Len(stack) - 1) EXCEPT
                         ![Len(stack) - 1] =
                             [@ EXCEPT !.idx = @ + 1, !.items = Append(@, value)]]
         /\ qgs_result' = qgs_result
         /\ step' = "enter"

\* an exception leaves collect_layers: no frame catches it
Raise(exception) ==
    /\ qgs_raised' = exception
    /\ step' = "raised"
    /\ UNCHANGED <<stack, qgs_result>>

\* the layer on top of the stack ends with the empty placeholder
Skip(msg) ==
    /\ logger' = Append(logger, LogEntry("error", Top.layer, msg))
    /\ Return(EmptyResult)
    /\ UNCHANGED qgs_raised

\* update_qgs up to its first collect_layers call: the log is cleared, the
\* session is opened and the WMS is looked up; without a WMS the session is
\* closed and the log is returned
CollectWmsLayerTree ==
    /\ cfg_step = "idle"
    /\ step = "idle"
    /\ IF "WMS" \in wms_wfs
       THEN /\ stack' = <<Frame(RootLayer, TRUE)>>
            /\ step' = "enter"
            /\ qgs_session' = "open"
            /\ logger' = <<>>
       ELSE /\ stack' = stack
            /\ step' = "returned"
            /\ qgs_session' = "closed"
            /\ logger' = <<LogEntry("error", 0, "WMS Service does not exist")>>
    /\ UNCHANGED <<dbvars, srvvars, cfgvars, svc_idx, role_idx, run, permissions,
                   collected, session, edit_permissions, filter_ids, vectorlayerids,
                   uuids, qgs_result, qgs_raised, qgs_files>>

\* update_qgs after the layer tree of the WMS: the WFS is looked up and its
\* layer tree is collected; without a WFS the session is closed and the log
\* is returned
CollectWfsLayerTree ==
    /\ step = "wms_done"
    /\ IF "WFS" \in wms_wfs
       THEN /\ stack' = <<Frame(RootLayer, FALSE)>>
            /\ step' = "enter"
            /\ UNCHANGED <<qgs_session, logger>>
       ELSE /\ stack' = stack
            /\ step' = "returned"
            /\ qgs_session' = "closed"
            /\ logger' = Append(logger,
                              LogEntry("error", 0, "WFS Service does not exist"))
    /\ UNCHANGED <<dbvars, srvvars, cfgvars, svc_idx, role_idx, run, permissions,
                   collected, session, edit_permissions, filter_ids, vectorlayerids,
                   uuids, qgs_result, qgs_raised, qgs_files>>

\* group layer: collect the next sub layer by a recursive call
CollectSubLayer ==
    /\ step = "enter"
    /\ layer_type[Top.layer] = "group"
    /\ Top.idx < Len(sub_layers[Top.layer])
    /\ IF Len(stack) < RecursionLimit
       THEN /\ stack' = Append(stack,
                           Frame(sub_layers[Top.layer][Top.idx + 1], Top.is_wms))
            /\ UNCHANGED <<step, qgs_result, qgs_raised>>
       ELSE Raise("RecursionError")
    /\ UNCHANGED <<dbvars, srvvars, prjvars, cfgvars, runvars, vectorlayerids, uuids>>

\* group layer: all sub layers are collected
ReturnGroup ==
    /\ step = "enter"
    /\ layer_type[Top.layer] = "group"
    /\ Top.idx = Len(sub_layers[Top.layer])
    /\ Return(GroupResult(Top.layer, Top.items))
    /\ UNCHANGED <<dbvars, srvvars, prjvars, cfgvars, runvars, vectorlayerids, uuids, qgs_raised>>

\* data layer: provider and layer type from the connection type
CollectDataLayer ==
    /\ step = "enter"
    /\ layer_type[Top.layer] = "data"
    /\ uuids' = uuids + 1
    /\ IF connection_type = "database"
       THEN IF connection # "postgresql:"
            THEN Skip("Unsupported DB provider")
            ELSE /\ stack' = [stack EXCEPT ![Len(stack)].layerid = uuids + 1]
                 /\ step' = "connect"
                 /\ UNCHANGED <<logger, qgs_result, qgs_raised>>
       ELSE IF connection_type = "directory"
            THEN /\ stack' = [stack EXCEPT ![Len(stack)].layerid = uuids + 1,
                                           ![Len(stack)].extent = "default_raster_extent"]
                 /\ step' = "style"
                 /\ UNCHANGED <<logger, qgs_result, qgs_raised>>
            ELSE /\ Return(EmptyResult)
                 /\ UNCHANGED <<logger, qgs_raised>>
    /\ UNCHANGED <<dbvars, srvvars, prjvars, cfgvars, svc_idx, role_idx, run, permissions, collected, session,
                   edit_permissions, filter_ids, vectorlayerids>>

\* connect to the data source; only OperationalError is caught
Connect ==
    /\ step = "connect"
    /\ IF geodb[Top.layer].connect = "ok"
       THEN /\ step' = "geometry"
            /\ UNCHANGED <<stack, logger, qgs_result, qgs_raised>>
       ELSE Skip("DB connection failed")
    /\ UNCHANGED <<dbvars, srvvars, prjvars, cfgvars, svc_idx, role_idx, run, permissions, collected, session,
                   edit_permissions, filter_ids, vectorlayerids, uuids>>

\* the geometry_columns query of collect_layers: the rows of the table, of
\* the named column if the Dataset View names one, LIMIT 1
geometry_columns(answer) ==
    LET Named(row) == row.f_geometry_column = answer.geometry_column
        rows == IF answer.geometry_column # "" THEN SelectSeq(answer.catalog, Named)
                ELSE answer.catalog
    IN  IF answer.geometry = "row" /\ rows # <<>> THEN <<rows[1]>> ELSE <<>>

\* geometry column, type and srid from geometry_columns; the query is not
\* guarded, a missing row is
GeometryColumns ==
    /\ step = "geometry"
    /\ IF geodb[Top.layer].geometry = "error"
       THEN Raise("ProgrammingError") /\ UNCHANGED logger
       ELSE LET result == geometry_columns(geodb[Top.layer])
            IN  IF result = <<>>
                THEN Skip("Unable to determine geometry properties")
                ELSE /\ stack' = [stack EXCEPT ![Len(stack)].geometry = result]
                     /\ step' = "pkey"
                     /\ UNCHANGED <<logger, qgs_result, qgs_raised>>
    /\ UNCHANGED <<dbvars, srvvars, prjvars, cfgvars, svc_idx, role_idx, run, permissions, collected, session,
                   edit_permissions, filter_ids, vectorlayerids, uuids>>

\* primary key from the data set or from pg_index; only the TypeError of a
\* missing row is caught
PrimaryKey ==
    /\ step = "pkey"
    /\ IF geodb[Top.layer].pkey \in {"explicit", "row"}
       THEN /\ step' = "extent"
            /\ UNCHANGED <<stack, logger, qgs_result, qgs_raised>>
       ELSE IF geodb[Top.layer].pkey = "none"
            THEN Skip("Unable to determine primary_key")
            ELSE Raise("ProgrammingError") /\ UNCHANGED logger
    /\ UNCHANGED <<dbvars, srvvars, prjvars, cfgvars, svc_idx, role_idx, run, permissions, collected, session,
                   edit_permissions, filter_ids, vectorlayerids, uuids>>

\* extent of the table; every failure of the query is caught, null
\* coordinates are replaced by the default extent
Extent ==
    /\ step = "extent"
    /\ IF geodb[Top.layer].extent = "error"
       THEN Skip("Unable to determine extent")
       ELSE /\ stack' = [stack EXCEPT ![Len(stack)].extent =
                            IF geodb[Top.layer].extent = "row"
                            THEN "table extent" ELSE "default_extent"]
            /\ step' = "style"
            /\ UNCHANGED <<logger, qgs_result, qgs_raised>>
    /\ UNCHANGED <<dbvars, srvvars, prjvars, cfgvars, svc_idx, role_idx, run, permissions, collected, session,
                   edit_permissions, filter_ids, vectorlayerids, uuids>>

\* style of the layer or the default style, then the layer is returned; the
\* default style of a vector layer is looked up by its single geometry type
Style ==
    /\ step = "style"
    /\ LET vector == connection_type = "database"
           fallback == qgs_style[Top.layer] # "valid"
           key == IF vector THEN singletype(Top.geometry[1].type) ELSE <<"raster">>
           logged == IF fallback /\ Top.is_wms
                     THEN Append(logger,
                              LogEntry(IF vector THEN "warning" ELSE "debug",
                                       Top.layer, "Falling back to default style"))
                     ELSE logger
       IN  /\ logger' = logged
           /\ IF fallback /\ key \notin DOMAIN default_styles
              THEN /\ Raise("KeyError")
                   /\ UNCHANGED vectorlayerids
              ELSE /\ vectorlayerids' =
                      IF vector
                      THEN [vectorlayerids EXCEPT
                               ![Top.is_wms] = Append(@, Top.layerid)]
                      ELSE vectorlayerids
                   /\ Return(LayerResult(Top.layer, Top.layerid,
                                         IF vector THEN "vector" ELSE "raster",
                                         IF vector THEN "postgres" ELSE "gdal",
                                         Top.geometry, Top.extent,
                                         IF fallback THEN default_styles[key]
                                         ELSE <<"layer", "qml">>))
                   /\ UNCHANGED qgs_raised
    /\ UNCHANGED <<dbvars, srvvars, prjvars, cfgvars, svc_idx, role_idx, run, permissions, collected, session,
                   edit_permissions, filter_ids, uuids>>

InitQgs ==
    /\ \/ \E db \in QgsDatabases \cup QgsServiceDatabases : InitDatabase(db)
       \/ \E choice \in QgsStyleDatabases : InitDatabase(QgsStyleDatabase(choice))
       \/ \E tables \in QgsGeometryDatabases :
              InitDatabase(QgsGeometryDatabase(tables))
    /\ svc_idx = 1
    /\ role_idx = 1
    /\ run = "idle"
    /\ permissions = [r \in RoleSet |-> NoPermissions]
    /\ collected = {}
    /\ session = [s \in ServiceSet |-> NoSession]
    /\ edit_permissions = [r \in RoleSet |-> <<>>]
    /\ filter_ids = [r \in RoleSet |-> [table_names |-> {}, ids |-> {}]]
    /\ logger = <<>>
    /\ InitQgsIdle
    /\ InitCfgIdle
    /\ InitSrvIdle

\* the group 'background_layers' of the background layers read by
\* update_qgs; layers are named by their ids, the group by 0
bg_layertree ==
    [type |-> "group", name |-> 0,
     items |-> <<[type |-> "layer", name |-> BackgroundLayerId,
                  layertype |-> "raster", provider |-> "wms"]>>]

\* the print layouts read by update_qgs

composers == <<TemplateQgisId>>

\* one rendered project file of the dataset of the WMS
QgsProject(suffix, layertree, print_layouts, wfs_layers) ==
    [filename |-> <<WmsId, suffix>>, layertree |-> layertree,
     composers |-> print_layouts, wfs_layers |-> wfs_layers]

\* update_qgs after both layer trees: the three projects are rendered and
\* written, the session is closed and the log is returned
WriteProjects ==
    /\ step = "done"
    /\ qgs_files' =
           <<QgsProject(".qgs", qgs_result[TRUE].items, <<>>, <<>>),
             QgsProject("_print.qgs", Append(qgs_result[TRUE].items, bg_layertree),
                        composers, <<>>),
             QgsProject("_wfs.qgs", qgs_result[FALSE].items, <<>>,
                        vectorlayerids[FALSE])>>
    /\ logger' = logger \o [k \in 1..3 |-> LogEntry("debug", 0, "Wrote")]
    /\ qgs_session' = "closed"
    /\ step' = "written"
    /\ UNCHANGED <<dbvars, srvvars, cfgvars, svc_idx, role_idx, run, permissions,
                   collected, session, edit_permissions, filter_ids, stack,
                   vectorlayerids, uuids, qgs_result, qgs_raised>>

NextQgs ==
    \/ CollectWmsLayerTree
    \/ CollectWfsLayerTree
    \/ CollectSubLayer
    \/ ReturnGroup
    \/ CollectDataLayer
    \/ Connect
    \/ GeometryColumns
    \/ PrimaryKey
    \/ Extent
    \/ Style
    \/ WriteProjects

SpecQgs == InitQgs /\ [][NextQgs]_vars

(***************************************************************************)
(* Properties of the layer collection.                                     *)
(***************************************************************************)
\* C9 (as stated): a layer that is already being collected further up the
\* call stack is never entered again, and the walk never ends in the
\* recursion limit of the interpreter.
C9_AncestorNeverReentered ==
    /\ \A i, j \in 1..Len(stack) : i < j => stack[i].layer # stack[j].layer
    /\ qgs_raised # "RecursionError"

\* C10 (as stated): a failing database step of a vector layer ends the layer
\* with the empty placeholder; no database error leaves collect_layers.
C10_DatabaseFailureSkipsLayer == qgs_raised # "ProgrammingError"

\* the results handed back so far to the calls on the stack, each with the
\* layer it was collected for
ReturnedResults ==
    UNION {{<<sub_layers[stack[d].layer][i], stack[d].items[i]>> :
               i \in 1..Len(stack[d].items)} : d \in 1..Len(stack)}

\* C11 (as stated): the call for a Data layer ends Rendered or Skipped and in
\* no other way; 'database' gives a 'postgres' vector layer, 'directory' a
\* 'gdal' raster layer without any database step, every other connection
\* kind gives Skipped.
C11_DataLayerEndsRenderedOrSkipped ==
    /\ \A r \in ReturnedResults :
          layer_type[r[1]] = "data" =>
             /\ r[2].type \in {"layer", "empty"}
             /\ r[2].type = "layer" =>
                   \/ /\ connection_type = "database"
                      /\ r[2].provider = "postgres"
                      /\ r[2].layertype = "vector"
                   \/ /\ connection_type = "directory"
                      /\ r[2].provider = "gdal"
                      /\ r[2].layertype = "raster"
             /\ connection_type \notin {"database", "directory"} => r[2].type = "empty"
    /\ connection_type = "directory" =>
          step \notin {"connect", "geometry", "pkey", "extent"}
    /\ step = "raised" => layer_type[Top.layer] # "data"

\* C12 (as stated): a vector layer whose geometry and primary key were
\* resolved is Rendered with the default extent when the extent query fails
\* or returns null coordinates.
C12_ExtentFailureRendersDefaultExtent ==
    \A r \in ReturnedResults :
       /\ layer_type[r[1]] = "data"
       /\ connection_type = "database"
       /\ connection = "postgresql:"
       /\ geodb[r[1]].connect = "ok"
       /\ geodb[r[1]].geometry = "row"
       /\ geodb[r[1]].pkey \in {"explicit", "row"}
       /\ geodb[r[1]].extent \in {"error", "null"}
       => /\ r[2].type = "layer"
          /\ r[2].extent = "default_extent"

\* C13 (as stated): a layer without a usable style document gets the
\* built-in default style of its geometry type (point, linestring, polygon;
\* raster for raster layers) for every geometry type, never an exception;
\* the fallback is logged as a warning for vector layers only.
C13_StyleFallsBackToDefault ==
    /\ qgs_raised # "KeyError"
    /\ \A r \in ReturnedResults :
          /\ layer_type[r[1]] = "data"
          /\ r[2].type = "layer"
          /\ qgs_style[r[1]] = "invalid"
          => r[2].style \in
                {default_styles[k] :
                    k \in IF connection_type = "database"
                          THEN {<<"point">>, <<"linestring">>, <<"polygon">>}
                          ELSE {<<"raster">>}}
    /\ \A i \in 1..Len(logger) :
          logger[i].msg = "Falling back to default style" =>
             (logger[i].level = "warning" <=> connection_type = "database")

(***************************************************************************)
(* Introspection of the GeoDB tables behind the Dataset Views.             *)
(***************************************************************************)
\* the empty dictionary {}
EmptyDict == [k \in {} |-> k]

\* postgis_metadata without its where clause on the geometry column
postgis_metadata_any_column(view) ==
    LET t == view.table
        primary_key == IF t.pkey = "row" THEN [primary_key |-> "id"] ELSE EmptyDict
        last == t.catalog[Len(t.catalog)]
        geometry == IF t.catalog # <<>>
                    THEN [geometry_column |-> last.f_geometry_column,
                          geometry_type |-> last.type, srid |-> last.srid]
                    ELSE EmptyDict
    IN  [info |-> IF t.connect = "error" \/ t.pkey = "error" THEN EmptyDict
                  ELSE IF t.geometry = "error" THEN primary_key
                  ELSE primary_key @@ geometry,
         log |-> <<>>]

\* PermissionsQuery.postgis_metadata: primary key and geometry column of a
\* table; every exception is caught and logged, what was found before the
\* exception is returned
postgis_metadata(view) ==
    LET t == view.table
        Named(row) == row.f_geometry_column = view.geometry_column
        rows == IF view.geometry_column # "" THEN SelectSeq(t.catalog, Named)
                ELSE t.catalog
        primary_key == IF t.pkey = "row" THEN [primary_key |-> "id"] ELSE EmptyDict
        last == rows[Len(rows)]
        geometry == IF rows # <<>>
                    THEN [geometry_column |-> last.f_geometry_column,
                          geometry_type |-> last.type, srid |-> last.srid]
                    ELSE EmptyDict
        raised == t.connect = "error" \/ t.pkey = "error" \/ t.geometry = "error"
    IN  [info |-> IF t.connect = "error" \/ t.pkey = "error" THEN EmptyDict
                  ELSE IF t.geometry = "error" THEN primary_key
                  ELSE primary_key @@ geometry,
         log |-> IF raised
                 THEN <<LogEntry("error", view.name, "Could not get PostGIS metadata")>>
                 ELSE <<>>]

\* DataServiceConfig._datasets: the resources of the data service, for the
\* edit datasets from index i on
RECURSIVE _datasets(_, _)
_datasets(views, i) ==
    IF i > Len(views) THEN [datasets |-> <<>>, log |-> <<>>]
    ELSE LET view == views[i]
             pgmeta == postgis_metadata(view)
             rest == _datasets(views, i + 1)
             pk == IF view.primary_key THEN <<"data_set.primary_key">>
                   ELSE IF "primary_key" \in DOMAIN pgmeta.info
                        THEN <<pgmeta.info.primary_key>> ELSE <<>>
             dataset == [name |-> view.name, primary_key |-> pk,
                         fields |-> view.attributes,
                         geometry |-> IF "geometry_column" \in DOMAIN pgmeta.info
                                      THEN <<[geometry_column |-> pgmeta.info.geometry_column,
                                              geometry_type |-> pgmeta.info.geometry_type,
                                              srid |-> pgmeta.info.srid]>>
                                      ELSE <<>>]
         IN  IF DOMAIN pgmeta.info = {}
             THEN [datasets |-> rest.datasets, log |-> pgmeta.log \o rest.log]
             ELSE [datasets |-> <<dataset>> \o rest.datasets,
                   log |-> pgmeta.log \o rest.log]

\* DataproductServiceConfig._postgis_metadata: primary key and all geometry
\* columns of a table; OperationalError and ProgrammingError are caught
_postgis_metadata(view) ==
    LET t == view.table
    IN  IF view.data_source = "missing"
        THEN [type |-> "error", error |-> "DataSource nicht gefunden", log |-> <<>>]
        ELSE IF t.connect = "error"
        THEN [type |-> "error", error |-> "OperationalError",
              log |-> <<LogEntry("error", view.name, "OperationalError")>>]
        ELSE IF t.pkey = "error" \/ t.geometry = "error"
        THEN [type |-> "error", error |-> "ProgrammingError",
              log |-> <<LogEntry("error", view.name, "ProgrammingError")>>]
        ELSE [type |-> "metadata",
              primary_key |-> IF t.pkey = "row" THEN <<"id">> ELSE <<>>,
              geometry_columns |->
                 [k \in DOMAIN t.catalog |->
                     [geometry_column |-> t.catalog[k].f_geometry_column,
                      geometry_type |-> t.catalog[k].type,
                      srid |-> t.catalog[k].srid]],
              log |-> <<>>]

\* DataproductServiceConfig._dataset_info: None for an empty table name
_dataset_info(view) ==
    IF view.data_set_name = "" \/ view.data_set_name = "None"
    THEN [type |-> "None", log |-> <<>>]
    ELSE _postgis_metadata(view)

\* DataproductServiceConfig._dataproduct_datasource for the Data layer of a
\* database Dataset View: the metadata, or the exception that leaves it
_dataproduct_datasource(view) ==
    LET pg_metadata == _dataset_info(view)
        columns == pg_metadata.geometry_columns
        used == {k \in DOMAIN columns :
                    columns[k].geometry_column = view.geometry_column}
        first == CHOOSE k \in used : \A j \in used : k <= j
        geom == IF Len(columns) > 1
                THEN IF used # {} THEN <<columns[first]>> ELSE <<>>
                ELSE columns
    IN  IF pg_metadata.type = "None"
        THEN [raised |-> "TypeError", log |-> <<>>]
        ELSE IF pg_metadata.type = "error"
        THEN [raised |-> "none", log |-> pg_metadata.log, datatype |-> "vector",
              name |-> view.name,
              postgis_datasource |-> [error |-> pg_metadata.error]]
        ELSE [raised |-> "none", log |-> <<>>, datatype |-> "vector",
              name |-> view.name,
              postgis_datasource |->
                 [primary_key |-> IF pg_metadata.primary_key # <<>>
                                  THEN pg_metadata.primary_key
                                  ELSE IF view.primary_key
                                       THEN <<"data_set.primary_key">> ELSE <<>>,
                  geometry |-> geom]]

\* DataproductServiceConfig._dataproducts: the metadata of the layers from
\* index i on, up to the first exception
RECURSIVE _dataproducts(_, _)
_dataproducts(views, i) ==
    IF i > Len(views) THEN [raised |-> "none", dataproducts |-> <<>>, log |-> <<>>]
    ELSE LET datasource == _dataproduct_datasource(views[i])
             rest == _dataproducts(views, i + 1)
         IN  IF datasource.raised # "none"
             THEN [raised |-> datasource.raised, dataproducts |-> <<>>,
                   log |-> datasource.log]
             ELSE [raised |-> rest.raised,
                   dataproducts |-> <<datasource>> \o rest.dataproducts,
                   log |-> datasource.log \o rest.log]

(***************************************************************************)
(* The layer trees of the OGC, FeatureInfo and Legend service documents    *)
(* and the queryable flag of the map viewer.                               *)
(***************************************************************************)
\* one node of a nested WMS layer tree; 'hide_sublayers', 'queryable' and
\* 'opacity' are keys that can be missing: FALSE resp. the empty sequence
WmsLayer(name, type, layers, hide_sublayers, attrs, queryable, opacity) ==
    [name |-> name, type |-> type, layers |-> layers,
     hide_sublayers |-> hide_sublayers, attributes |-> attrs,
     queryable |-> queryable, opacity |-> opacity]

\* [attr.name for attr in layer.data_set_view.attributes]
attribute_names == [i \in 1..num_attributes |-> attributes[i].name]

\* collect_wms_layers passing on the facade flag of the group alone
RECURSIVE collect_wms_layers_own_facade(_, _)
collect_wms_layers_own_facade(layer, facade_sublayer) ==
    IF layer_type[layer] = "group"
    THEN WmsLayer(layer, "layergroup",
                  [k \in DOMAIN sub_layers[layer] |->
                      collect_wms_layers_own_facade(sub_layers[layer][k], facade[layer])],
                  facade[layer], <<>>, <<>>, <<>>)
    ELSE LET attrs == attribute_names \o <<"geometry">>
             opacity == IF facade_sublayer /\ layer_transparency[layer] # 0
                        THEN <<100 - layer_transparency[layer]>> ELSE <<>>
         IN  IF connection_type = "database"
             THEN WmsLayer(layer, "layer", <<>>, FALSE, attrs, <<Len(attrs) > 0>>,
                           opacity)
             ELSE WmsLayer(layer, "layer", <<>>, FALSE, <<>>, <<TRUE>>, opacity)

\* OGCServiceConfig.collect_wms_layers; 'geometry' is appended to the list
\* that was stored as 'attributes' before queryable is computed from it
RECURSIVE collect_wms_layers(_, _)
collect_wms_layers(layer, facade_sublayer) ==
    IF layer_type[layer] = "group"
    THEN LET in_facade == facade[layer] \/ facade_sublayer
         IN  WmsLayer(layer, "layergroup",
                      [k \in DOMAIN sub_layers[layer] |->
                          collect_wms_layers(sub_layers[layer][k], in_facade)],
                      facade[layer], <<>>, <<>>, <<>>)
    ELSE LET attrs == attribute_names \o <<"geometry">>
             opacity == IF facade_sublayer /\ layer_transparency[layer] # 0
                        THEN <<100 - layer_transparency[layer]>> ELSE <<>>
         IN  IF connection_type = "database"
             THEN WmsLayer(layer, "layer", <<>>, FALSE, attrs, <<Len(attrs) > 0>>,
                           opacity)
             ELSE WmsLayer(layer, "layer", <<>>, FALSE, <<>>, <<TRUE>>, opacity)

\* FeatureInfoServiceConfig.collect_wms_layers
RECURSIVE FeatureInfo_collect_wms_layers(_, _)
FeatureInfo_collect_wms_layers(layer, facade_sublayer) ==
    IF layer_type[layer] = "group"
    THEN LET in_facade == facade[layer] \/ facade_sublayer
         IN  WmsLayer(layer, "layergroup",
                      [k \in DOMAIN sub_layers[layer] |->
                          FeatureInfo_collect_wms_layers(sub_layers[layer][k],
                                                         in_facade)],
                      facade[layer], <<>>, <<>>, <<>>)
    ELSE WmsLayer(layer, "layer", <<>>, FALSE,
                  attribute_names
                  \o (IF connection_type = "database" THEN <<"geometry">> ELSE <<>>),
                  <<>>, <<>>)

\* LegendServiceConfig.collect_wms_layers
RECURSIVE Legend_collect_wms_layers(_, _)
Legend_collect_wms_layers(layer, facade_sublayer) ==
    IF layer_type[layer] = "group"
    THEN LET in_facade == facade[layer] \/ facade_sublayer
         IN  WmsLayer(layer, "layergroup",
                      [k \in DOMAIN sub_layers[layer] |->
                          Legend_collect_wms_layers(sub_layers[layer][k], in_facade)],
                      facade[layer], <<>>, <<>>, <<>>)
    ELSE WmsLayer(layer, "layer", <<>>, FALSE, <<>>, <<>>, <<>>)

\* OGCServiceConfig.postgis_primary_key: the key of the data set if it is
\* set, else the key found in the GeoDB; every exception is caught and logged
postgis_primary_key(layer) ==
    LET answer == geodb[layer]
    IN  IF answer.pkey = "explicit"
        THEN [pkey |-> <<"data_set.primary_key">>, log |-> <<>>]
        ELSE IF answer.connect # "ok" \/ answer.pkey = "error"
        THEN [pkey |-> <<>>,
              log |-> <<LogEntry("error", layer, "Could not get primary key")>>]
        ELSE [pkey |-> IF answer.pkey = "row" THEN <<"id">> ELSE <<>>, log |-> <<>>]

\* collect_wfs_layers without the entries of the layers before a group's
\* last sub layer
RECURSIVE collect_wfs_layers_last_sublayer(_)
collect_wfs_layers_last_sublayer(layer) ==
    IF layer_type[layer] = "group"
    THEN IF sub_layers[layer] = <<>> THEN [layers |-> <<>>, log |-> <<>>]
         ELSE collect_wfs_layers_last_sublayer(
                  sub_layers[layer][Len(sub_layers[layer])])
    ELSE [layers |-> <<[name |-> layer,
                        attributes |-> attribute_names \o <<"geometry">>]>>,
          log |-> <<>>]

\* OGCServiceConfig.collect_wfs_layers: the flat list of the vector layers
RECURSIVE collect_wfs_layers(_)
RECURSIVE collect_wfs_sub_layers(_, _)
collect_wfs_sub_layers(layer, i) ==
    IF i > Len(sub_layers[layer]) THEN [layers |-> <<>>, log |-> <<>>]
    ELSE LET first == collect_wfs_layers(sub_layers[layer][i])
             rest == collect_wfs_sub_layers(layer, i + 1)
         IN  [layers |-> first.layers \o rest.layers, log |-> first.log \o rest.log]

collect_wfs_layers(layer) ==
    IF layer_type[layer] = "group" THEN collect_wfs_sub_layers(layer, 1)
    ELSE IF connection_type = "database"
    THEN LET pkey == postgis_primary_key(layer)
         IN  [layers |-> <<[name |-> layer,
                            attributes |-> pkey.pkey \o attribute_names
                                           \o <<"geometry">>]>>,
              log |-> pkey.log
                      \o (IF pkey.pkey = <<>>
                          THEN <<LogEntry("warning", layer,
                                          "Could not find primary key")>>
                          ELSE <<>>)]
    ELSE [layers |-> <<>>, log |-> <<>>]

\* MapViewerConfig.layer_queryable
RECURSIVE layer_queryable(_)
layer_queryable(layer) ==
    IF layer_type[layer] = "group"
    THEN \E k \in DOMAIN sub_layers[layer] : layer_queryable(sub_layers[layer][k])
    ELSE IF connection_type = "database" THEN num_attributes > 0
    ELSE TRUE

(***************************************************************************)
(* SearchServiceConfig._facets: the facets of the search service.          *)
(***************************************************************************)
\* the facets of the views from index i on, appended to searches; facets
\* holds the <<facet, filter_word>> pairs added for the views so far
RECURSIVE _facets(_, _, _, _)
_facets(views, i, searches, facets) ==
    IF i > Len(views) THEN searches
    ELSE LET data_set_view == views[i]
             feature_search == [name |-> data_set_view.facet,
                                filter_word |-> data_set_view.filter_word,
                                default |-> data_set_view.searchable = 2]
             new_facet == \A pair \in facets : pair[1] # data_set_view.facet
             first == IF new_facet
                      THEN [searches |-> Append(searches, feature_search),
                            facets |-> facets \cup {<<data_set_view.facet,
                                                      data_set_view.filter_word>>}]
                      ELSE [searches |-> searches, facets |-> facets]
             unique == <<data_set_view.facet, data_set_view.filter_word>>
                          \notin first.facets
         IN  IF data_set_view.searchable = 0
             THEN _facets(views, i + 1, searches, facets)
             ELSE IF unique
             THEN _facets(views, i + 1, Append(first.searches, feature_search),
                          first.facets \cup {<<data_set_view.facet,
                                               data_set_view.filter_word>>})
             ELSE _facets(views, i + 1, first.searches, first.facets)

\* the two facets every search config starts with
BaselineFacets ==
    <<[name |-> "foreground", filter_word |-> "Karte", default |-> TRUE],
      [name |-> "background", filter_word |-> "Hintergrundkarte", default |-> FALSE]>>

(***************************************************************************)
(* MapViewerConfig.edit_config: the editable datasets of a theme item.     *)
(***************************************************************************)
\* the number 10^pow, or 10^pow - 10^minus[1], negated if neg
Number(neg, pow, minus) == [neg |-> neg, pow |-> pow, minus |-> minus]

\* scales for which 10^(16 - scale) - 10^(-scale) rounds to 10^(16 - scale)
\* in binary64
AbsorbedScales16 == {2, 3, 5, 6, 9, 12, 15}

\* pow(10, precision - scale) - step: exact for the integers of scale 0;
\* else a binary64 subtraction, whose 53 bit significand holds every
\* number of up to 15 digits and no number of precision nines from 17
\* digits on: the result is then rounded to 10^(precision - scale)
max_value(numeric_precision, numeric_scale) ==
    IF \/ numeric_scale = 0
       \/ numeric_precision < 16
       \/ numeric_precision = 16 /\ numeric_scale \notin AbsorbedScales16
    THEN Number(FALSE, numeric_precision - numeric_scale, <<-numeric_scale>>)
    ELSE Number(FALSE, numeric_precision - numeric_scale, <<>>)

\* PermissionsQuery.attribute_metadata: data type and constraints of a
\* column, here of a text or a numeric column
attribute_metadata(column) ==
    [data_type |-> column.data_type,
     constraints |->
        IF column.data_type = "numeric" /\ column.numeric_precision # 0
        THEN LET max == max_value(column.numeric_precision, column.numeric_scale)
             IN  [numeric_precision |-> column.numeric_precision,
                  numeric_scale |-> column.numeric_scale,
                  min |-> [max EXCEPT !.neg = TRUE],
                  max |-> max,
                  step |-> Number(FALSE, -column.numeric_scale, <<>>)]
        ELSE EmptyDict]

\* EDIT_GEOM_TYPES without the MULTI types
EDIT_GEOM_TYPES_single ==
    [type \in {<<"POINT">>, <<"LINESTRING">>, <<"POLYGON">>} |->
        CASE type = <<"POINT">> -> "Point"
          [] type = <<"LINESTRING">> -> "LineString"
          [] type = <<"POLYGON">> -> "Polygon"]

\* PostGIS geometry type -> QWC2 edit geometry type
EDIT_GEOM_TYPES ==
    [type \in {<<"POINT">>, <<"MULTI", "POINT">>, <<"LINESTRING">>,
               <<"MULTI", "LINESTRING">>, <<"POLYGON">>, <<"MULTI", "POLYGON">>} |->
        CASE type = <<"POINT">> -> "Point"
          [] type = <<"MULTI", "POINT">> -> "Point"
          [] type = <<"LINESTRING">> -> "LineString"
          [] type = <<"MULTI", "LINESTRING">> -> "LineString"
          [] type = <<"POLYGON">> -> "Polygon"
          [] type = <<"MULTI", "POLYGON">> -> "Polygon"]

\* edit_config for the edit datasets from index i on: the datasets with a
\* write permission, attributes and a supported geometry type
RECURSIVE edit_config(_, _)
edit_config(views, i) ==
    IF i > Len(views) THEN [datasets |-> <<>>, log |-> <<>>]
    ELSE LET view == views[i]
             rest == edit_config(views, i + 1)
             fields == [k \in DOMAIN view.attributes |->
                          [id |-> view.attributes[k],
                           constraints |-> attribute_metadata(view.column).constraints]]
             pgmeta == postgis_metadata(view)
             found == "geometry_column" \in DOMAIN pgmeta.info
             supported == found /\ pgmeta.info.geometry_type \in DOMAIN EDIT_GEOM_TYPES
             warning == IF found /\ ~supported
                        THEN <<LogEntry("warning", view.name,
                                        "Unsupported geometry type")>>
                        ELSE <<>>
         IN  IF ~view.write THEN rest
             ELSE IF fields # <<>> /\ supported
             THEN [datasets |->
                      <<[editDataset |-> view.name, fields |-> fields,
                         geomType |-> EDIT_GEOM_TYPES[pgmeta.info.geometry_type]]>>
                      \o rest.datasets,
                   log |-> pgmeta.log \o warning \o rest.log]
             ELSE [datasets |-> rest.datasets,
                   log |-> pgmeta.log \o warning \o rest.log]

(***************************************************************************)
(* ConfigGenerator.write_configs: every service of the run settings gets   *)
(* its document from its handler, the document is validated and written.   *)
(***************************************************************************)
\* the services that have a handler reading the ConfigDB
Handlers ==
    {"ogc", "featureInfo", "legend", "mapViewer", "dataproduct", "print", "search",
     "data", "document"}

\* the 'services' lists of the run settings considered: one service, known
\* or not, or the data service followed by another one
ServiceLists ==
    {<<service>> : service \in Handlers \cup {"unknown"}}
    \cup {<<"data", service>> : service \in Handlers \cup {"unknown"}}

\* write_configs goes on with the next service of the list
NextService ==
    /\ cfg_idx' = cfg_idx + 1
    /\ cfg_step' = IF cfg_idx < Len(cfg_services) THEN "config" ELSE "done"

\* write_service_config asks the handler of this service for its document
Collecting(service) ==
    /\ cfg_step = "config"
    /\ cfg_idx <= Len(cfg_services)
    /\ cfg_services[cfg_idx] = service

\* config() returns its document; close tells whether it closed its session
ConfigReturns(service, resources, log, close) ==
    /\ config' = [service |-> service, resources |-> resources]
    /\ cfg_session' = IF close THEN cfg_session ELSE cfg_session \cup {service}
    /\ logger' = logger \o log
    /\ cfg_step' = "validate"
    /\ UNCHANGED <<dbvars, srvvars, prjvars, qgsvars, svc_idx, role_idx, run, permissions, collected,
                   session, edit_permissions, filter_ids, cfg_services, cfg_idx, files,
                   cfg_raised>>

\* an exception leaves config() and write_configs; the session stays open
ConfigRaises(service, exception, log) ==
    /\ cfg_raised' = exception
    /\ cfg_session' = cfg_session \cup {service}
    /\ logger' = logger \o log
    /\ cfg_step' = "raised"
    /\ UNCHANGED <<dbvars, srvvars, prjvars, qgsvars, svc_idx, role_idx, run, permissions, collected,
                   session, edit_permissions, filter_ids, cfg_services, cfg_idx, files,
                   config>>

OgcConfig ==
    /\ Collecting("ogc")
    /\ LET wfs_layers == collect_wfs_layers(RootLayer)
       IN  ConfigReturns("ogc",
               [wms_services |->
                   <<[name |-> WmsId, root_layer |-> collect_wms_layers(RootLayer, FALSE)]>>,
                wfs_services |-> <<[name |-> WfsId, layers |-> wfs_layers.layers]>>],
               wfs_layers.log, TRUE)

FeatureInfoConfig ==
    /\ Collecting("featureInfo")
    /\ ConfigReturns("featureInfo",
           [wms_services |->
               <<[name |-> WmsId,
                  root_layer |-> FeatureInfo_collect_wms_layers(RootLayer, FALSE)]>>],
           <<>>, TRUE)

LegendConfig ==
    /\ Collecting("legend")
    /\ ConfigReturns("legend",
           [wms_services |->
               <<[name |-> WmsId,
                  root_layer |-> Legend_collect_wms_layers(RootLayer, FALSE)]>>],
           <<>>, TRUE)

\* MapViewerConfig.config: the themes with the edit config of their item
MapViewerConfig ==
    /\ Collecting("mapViewer")
    /\ LET resources == edit_config(data_set_views, 1)
       IN  ConfigReturns("mapViewer", resources.datasets, resources.log, TRUE)

PrintConfig ==
    /\ Collecting("print")
    /\ ConfigReturns("print", <<>>, <<>>, FALSE)

SearchConfig ==
    /\ Collecting("search")
    /\ ConfigReturns("search", _facets(data_set_views, 1, BaselineFacets, {}), <<>>,
                     FALSE)

DocumentConfig ==
    /\ Collecting("document")
    /\ ConfigReturns("document", <<>>, <<>>, FALSE)

DataConfig ==
    /\ Collecting("data")
    /\ LET resources == _datasets(data_set_views, 1)
       IN  ConfigReturns("data", resources.datasets, resources.log, FALSE)

DataproductConfig ==
    /\ Collecting("dataproduct")
    /\ LET resources == _dataproducts(data_set_views, 1)
       IN  IF resources.raised = "none"
           THEN ConfigReturns("dataproduct", resources.dataproducts, resources.log,
                              TRUE)
           ELSE ConfigRaises("dataproduct", resources.raised, resources.log)

\* a service without a handler is reported and left out
ServiceNotFound ==
    /\ cfg_step = "config"
    /\ cfg_idx <= Len(cfg_services)
    /\ cfg_services[cfg_idx] \notin Handlers
    /\ logger' = Append(logger, LogEntry("warning", 0, "Service not found"))
    /\ NextService
    /\ UNCHANGED <<dbvars, srvvars, prjvars, qgsvars, svc_idx, role_idx, run, permissions, collected,
                   session, edit_permissions, filter_ids, cfg_services, config,
                   cfg_session, files, cfg_raised>>

\* validate_schema: the schema is downloaded and parsed, the document is
\* checked against it; requests.get raises when the host cannot be reached
ValidateSchema ==
    /\ cfg_step = "validate"
    /\ \E outcome \in {"valid", "invalid", "status", "json", "ConnectionError"} :
          IF outcome = "ConnectionError"
          THEN /\ cfg_raised' = outcome
               /\ cfg_step' = "raised"
               /\ UNCHANGED logger
          ELSE /\ logger' = logger
                    \o (CASE outcome = "status" ->
                                <<LogEntry("error", 0, "Could not download JSON schema")>>
                          [] outcome = "json" ->
                                <<LogEntry("error", 0, "Could not parse JSON schema")>>
                          [] outcome = "invalid" ->
                                <<LogEntry("error", 0, "Validation error")>>
                          [] OTHER -> <<>>)
                    \o <<IF outcome = "valid"
                         THEN LogEntry("info", 0, "validates against schema")
                         ELSE LogEntry("error", 0, "failed schema validation")>>
               /\ cfg_step' = "write"
               /\ UNCHANGED cfg_raised
    /\ UNCHANGED <<dbvars, srvvars, prjvars, qgsvars, svc_idx, role_idx, run, permissions, collected,
                   session, edit_permissions, filter_ids, cfg_services, cfg_idx, config,
                   cfg_session, files>>

\* write_json_file: every failure of the write is caught and logged
WriteJsonFile ==
    /\ cfg_step = "write"
    /\ \E outcome \in {"written", "UnicodeEncodeError", "Exception"} :
          /\ files' = Append(files, [name |-> config.service, outcome |-> outcome])
          /\ logger' = IF outcome = "written" THEN logger
                       ELSE Append(logger,
                                LogEntry("error", 0, "Could not write config file"))
    /\ NextService
    /\ UNCHANGED <<dbvars, srvvars, prjvars, qgsvars, svc_idx, role_idx, run, permissions, collected,
                   session, edit_permissions, filter_ids, cfg_services, config,
                   cfg_session, cfg_raised>>

\* every tree, every facade flag on its groups, with and without
\* transparency of its data layers
FacadeDatabases ==
    UNION {{[Database(tree, {}, "database", {}) EXCEPT
                !.facade = f,
                !.layer_transparency =
                    [l \in LayerIds |-> IF tree.layer_type[l] = "data" THEN t ELSE 0]] :
              f \in {g \in [LayerIds -> BOOLEAN] :
                        \A l \in LayerIds : g[l] => tree.layer_type[l] = "group"},
              t \in {0, 30}} :
           tree \in Trees}

\* every tree of tables or of files, every number of attributes of the
\* view, every answer to the query for the primary key
AttributeDatabases ==
    {[Database(tree, {}, conn, {}) EXCEPT
         !.num_attributes = n, !.geodb = [l \in LayerIds |-> answer]] :
        tree \in Trees, conn \in {"database", "directory"}, n \in 0..NumAttrs,
        answer \in {[GeoDbOk EXCEPT !.connect = "OperationalError"]}
                   \cup {[GeoDbOk EXCEPT !.pkey = k] :
                            k \in {"explicit", "row", "none", "error"}}}

InitConfig ==
    /\ \/ \E views \in DataSetViewLists, services \in ServiceLists :
             /\ InitDatabase([Database(FlatTree, {}, "database", {}) EXCEPT
                                 !.data_set_views = views])
             /\ cfg_services = services
             /\ (views # OkViews =>
                    services \in {<<"data">>, <<"mapViewer">>, <<"dataproduct">>})
       \/ \E views \in SearchViewLists :
             /\ InitDatabase([Database(FlatTree, {}, "database", {}) EXCEPT
                                 !.data_set_views = views])
             /\ cfg_services = <<"search">>
       \/ \E db \in FacadeDatabases \cup AttributeDatabases,
             service \in {"ogc", "featureInfo", "legend"} :
             /\ InitDatabase(db)
             /\ cfg_services = <<service>>
    /\ svc_idx = 1
    /\ role_idx = 1
    /\ run = "idle"
    /\ permissions = [r \in RoleSet |-> NoPermissions]
    /\ collected = {}
    /\ session = [s \in ServiceSet |-> NoSession]
    /\ edit_permissions = [r \in RoleSet |-> <<>>]
    /\ filter_ids = [r \in RoleSet |-> [table_names |-> {}, ids |-> {}]]
    /\ logger = <<>>
    /\ InitQgsIdle
    /\ InitSrvIdle
    /\ cfg_idx = 1
    /\ cfg_step = "config"
    /\ config = [service |-> "none"]
    /\ cfg_session = {}
    /\ files = <<>>
    /\ cfg_raised = "none"

NextConfig ==
    \/ OgcConfig
    \/ FeatureInfoConfig
    \/ LegendConfig
    \/ MapViewerConfig
    \/ PrintConfig
    \/ SearchConfig
    \/ DocumentConfig
    \/ DataConfig
    \/ DataproductConfig
    \/ ServiceNotFound
    \/ ValidateSchema
    \/ WriteJsonFile

SpecConfig == InitConfig /\ [][NextConfig]_vars

(***************************************************************************)
(* The service (server.py) handles one request: generate_configs writes    *)
(* the service documents, update_qgs collects the layers of the projects.  *)
(***************************************************************************)
\* the response of generate_configs once write_configs has ended: every
\* exception is caught and reported as 'error', the log is not returned
generate_configs ==
    IF cfg_raised # "none" THEN [error |-> cfg_raised]
    ELSE [message |-> "Finished writing service configs and permissions"]

\* the response of update_qgs once write_qgs has ended: the log of the
\* QGSWriter is returned unless an exception was caught
update_qgs ==
    IF qgs_raised # "none" THEN [error |-> qgs_raised]
    ELSE [message |-> "Finished writing QGIS project files", log |-> logger]

InitServer == InitConfig \/ InitQgs

NextServer == NextConfig \/ NextQgs

SpecServer == InitServer /\ [][NextServer]_vars

(***************************************************************************)
(* The application serves trigger requests concurrently.  Every request    *)
(* creates its own ConfigGenerator (server.py, config_generator), whose    *)
(* constructor creates the handlers; DatabaseEngine keeps the engines it   *)
(* created in a dictionary of the instance (service_lib/database.py).      *)
(***************************************************************************)
MaxEngines == 3
MaxSessions == 2

\* two requests in progress at the same time
Requests == {1, 2}
Routes == {"generate_configs", "update_qgs"}

GeoDbUrl == "postgresql:///?service=sogis_services"
ConfigDbUrl == "postgresql:///?service=soconfig_services"
\* service_suffix: "" stands for None
ServiceSuffixes == {"", "_write"}

\* the objects of one ConfigGenerator that call db_engine: the DatabaseEngine
\* of the constructor is handed to OGCServiceConfig and QGSWriter, every
\* PermissionsQuery constructs one of its own
EngineHolders == {"ConfigGenerator", "PermissionsQuery"}

\* the objects of one ConfigGenerator that hold a session while they work
SessionHolders(route) ==
    IF route = "generate_configs" THEN {"ogc"} ELSE {"qgs_writer"}

AllSessionHolders == UNION {SessionHolders(route) : route \in Routes}

\* DatabaseEngine.db_engine on the instance 'holder': the engine and the
\* engines that exist afterwards
db_engine(holder, conn_str, service_suffix) ==
    LET key == IF service_suffix # "" THEN conn_str \o service_suffix
               ELSE conn_str
        cached == {e \in engines : e.holder = holder /\ e.conn_str = key}
        engine == [id |-> Cardinality(engines) + 1, holder |-> holder,
                   conn_str |-> key]
    IN  IF cached # {}
        THEN [engine |-> (CHOOSE e \in cached : TRUE).id, engines |-> engines]
        ELSE [engine |-> engine.id, engines |-> engines \cup {engine}]

\* config_generator() always constructs a ConfigGenerator; this one would
\* keep a single instance for the application
config_generator_singleton == IF generators = 0 THEN generators + 1 ELSE generators

\* server.config_generator: the ConfigGenerator constructed for a request
config_generator == generators + 1

\* generate_configs / update_qgs up to "generator = config_generator()": the
\* constructor makes a DatabaseEngine, the engine of the ConfigDB and the
\* handlers
Trigger ==
    \E r \in Requests, route \in Routes :
        LET g == config_generator
            made == db_engine(<<g, "ConfigGenerator">>, ConfigDbUrl, "")
        IN  /\ requests[r].pc = "idle"
            /\ requests' = [requests EXCEPT ![r] =
                   [route |-> route, pc |-> "running", generator |-> g]]
            /\ generators' = IF g > generators THEN g ELSE generators
            /\ engines' = made.engines
            /\ self_session' =
                   IF g > Len(self_session)
                   THEN Append(self_session, [h \in AllSessionHolders |-> 0])
                   ELSE self_session
            /\ UNCHANGED <<dbvars, runvars, qgsvars, prjvars, cfgvars, sessions>>

\* a component of the request's generator asks its DatabaseEngine for an
\* engine
DbEngine ==
    \E r \in Requests, holder \in EngineHolders,
       conn_str \in {GeoDbUrl}, suffix \in ServiceSuffixes :
        LET made == db_engine(<<requests[r].generator, holder>>, conn_str, suffix)
        IN  /\ requests[r].pc = "running"
            /\ made.engines = engines \/ Cardinality(engines) < MaxEngines
            /\ engines' = made.engines
            /\ UNCHANGED <<dbvars, runvars, qgsvars, prjvars, cfgvars, requests, generators,
                           sessions, self_session>>

\* "session = self.config_models.session()" in an object of the request's
\* generator
OpenSession ==
    \E r \in Requests :
        \E h \in SessionHolders(requests[r].route) :
            LET g == requests[r].generator
            IN  /\ requests[r].pc = "running"
                /\ self_session[g][h] = 0
                /\ Len(sessions) < MaxSessions
                /\ sessions' = Append(sessions,
                       [opened_by |-> r, open |-> TRUE, read_by |-> {},
                        closed_by |-> {}])
                /\ self_session' = [self_session EXCEPT ![g][h] = Len(sessions) + 1]
                /\ UNCHANGED <<dbvars, runvars, qgsvars, prjvars, cfgvars, requests,
                               generators, engines>>

\* a query through the session the object holds
Query ==
    \E r \in Requests :
        \E h \in SessionHolders(requests[r].route) :
            LET g == requests[r].generator
                s == self_session[g][h]
            IN  /\ requests[r].pc = "running"
                /\ s # 0
                /\ r \notin sessions[s].read_by
                /\ sessions' = [sessions EXCEPT ![s].read_by = @ \cup {r}]
                /\ UNCHANGED <<dbvars, runvars, qgsvars, prjvars, cfgvars, requests,
                               generators, engines, self_session>>

\* "session.close()" on the session the object holds
CloseSession ==
    \E r \in Requests :
        \E h \in SessionHolders(requests[r].route) :
            LET g == requests[r].generator
                s == self_session[g][h]
            IN  /\ requests[r].pc = "running"
                /\ s # 0
                /\ sessions' = [sessions EXCEPT ![s].open = FALSE,
                                                ![s].closed_by = @ \cup {r}]
                /\ self_session' = [self_session EXCEPT ![g][h] = 0]
                /\ UNCHANGED <<dbvars, runvars, qgsvars, prjvars, cfgvars, requests,
                               generators, engines>>

\* the route returns its response
Respond ==
    \E r \in Requests :
        /\ requests[r].pc = "running"
        /\ requests' = [requests EXCEPT ![r].pc = "done"]
        /\ UNCHANGED <<dbvars, runvars, qgsvars, prjvars, cfgvars, generators, engines,
                       sessions, self_session>>

InitRequests ==
    /\ InitDatabase(Database(FlatTree, {}, "database", {}))
    /\ svc_idx = 1
    /\ role_idx = 1
    /\ run = "idle"
    /\ permissions = [r \in RoleSet |-> NoPermissions]
    /\ collected = {}
    /\ session = [s \in ServiceSet |-> NoSession]
    /\ edit_permissions = [r \in RoleSet |-> <<>>]
    /\ filter_ids = [r \in RoleSet |-> [table_names |-> {}, ids |-> {}]]
    /\ logger = <<>>
    /\ InitQgsIdle
    /\ InitCfgIdle
    /\ requests = [r \in Requests |->
           [route |-> "none", pc |-> "idle", generator |-> 0]]
    /\ generators = 0
    /\ engines = {}
    /\ sessions = <<>>
    /\ self_session = <<>>

NextRequests ==
    \/ Trigger
    \/ DbEngine
    \/ OpenSession
    \/ Query
    \/ CloseSession
    \/ Respond

SpecRequests == InitRequests /\ [][NextRequests]_vars

(***************************************************************************)
(* Properties of the generated service documents.                          *)
(***************************************************************************)
\* C14 (as stated): an edit dataset whose table cannot be connected to, or
\* has neither a primary key row nor a geometry_columns row, is logged and
\* left out of 'datasets'; config() still returns, and every other edit
\* dataset is listed, in name order.
C14_FailedIntrospectionLoggedAndOmitted ==
    config.service = "data" /\ cfg_step = "validate" =>
       LET listed == {config.resources[k].name : k \in DOMAIN config.resources}
       IN  /\ cfg_raised = "none"
           /\ \A i \in DOMAIN data_set_views :
                 LET t == data_set_views[i].table
                     column == data_set_views[i].geometry_column
                     found == \E k \in DOMAIN t.catalog :
                                 column \in {"", t.catalog[k].f_geometry_column}
                 IN  /\ \/ t.connect = "error"
                        \/ /\ t.connect = "ok"
                           /\ t.pkey = "none"
                           /\ t.geometry = "rows"
                           /\ t.catalog = <<>>
                        => /\ i \notin listed
                           /\ \E k \in DOMAIN logger :
                                 logger[k].level = "error" /\ logger[k].layer = i
                     /\ /\ t.connect = "ok"
                        /\ t.pkey # "error"
                        /\ t.geometry = "rows"
                        /\ t.pkey = "row" \/ found
                        => i \in listed
           /\ \A k \in DOMAIN config.resources :
                 k > 1 => config.resources[k - 1].name < config.resources[k].name

\* C15 (as stated): the introspection of the dataproduct service gives the
\* metadata of the table or an 'error' marker and never raises, whatever
\* the table name, the data source, the connection and the queries do.
C15_DataproductIntrospectionNeverRaises ==
    /\ cfg_raised # "TypeError"
    /\ config.service = "dataproduct" =>
          /\ Len(config.resources) = Len(data_set_views)
          /\ \A k \in DOMAIN config.resources :
                LET datasource == config.resources[k].postgis_datasource
                IN  \/ DOMAIN datasource = {"error"}
                    \/ DOMAIN datasource = {"primary_key", "geometry"}

\* C16: for a table with more than one registered geometry column and a
\* Dataset View that names one of them, the data service document, the
\* dataproduct document and the layer of the QGIS project all carry the
\* column, type and srid of the named column, whatever the order of the
\* geometry_columns rows.
C16_NamedGeometryColumnIsUsed ==
    LET Registered(catalog, column) ==
            {k \in DOMAIN catalog : catalog[k].f_geometry_column = column}
        Named(catalog, column) ==
            LET row == catalog[CHOOSE k \in Registered(catalog, column) : TRUE]
            IN  [geometry_column |-> column, geometry_type |-> row.type,
                 srid |-> row.srid]
        Several(catalog, column) ==
            Len(catalog) > 1 /\ Registered(catalog, column) # {}
    IN  /\ config.service = "data" =>
              \A i \in DOMAIN data_set_views :
                 LET view == data_set_views[i]
                 IN  Several(view.table.catalog, view.geometry_column) =>
                        \E k \in DOMAIN config.resources :
                           /\ config.resources[k].name = i
                           /\ config.resources[k].geometry =
                                 <<Named(view.table.catalog, view.geometry_column)>>
        /\ config.service = "dataproduct" =>
              \A k \in DOMAIN config.resources :
                 LET view == data_set_views[config.resources[k].name]
                 IN  Several(view.table.catalog, view.geometry_column) =>
                        config.resources[k].postgis_datasource.geometry =
                           <<Named(view.table.catalog, view.geometry_column)>>
        /\ \A r \in ReturnedResults :
              /\ layer_type[r[1]] = "data"
              /\ Several(geodb[r[1]].catalog, geodb[r[1]].geometry_column)
              => /\ r[2].type = "layer"
                 /\ \A k \in DOMAIN r[2].datasource :
                       LET named == Named(geodb[r[1]].catalog,
                                          geodb[r[1]].geometry_column)
                       IN  /\ r[2].datasource[k].f_geometry_column =
                                 named.geometry_column
                           /\ r[2].datasource[k].type = named.geometry_type
                           /\ r[2].datasource[k].srid = named.srid
                 /\ r[2].datasource # <<>>

\* the data service document lists an edit dataset whose table registers
\* geom_a before geom_b and whose view names geom_a
C16_Witness ==
    /\ config.service = "data"
    /\ \E k \in DOMAIN config.resources :
          LET view == data_set_views[config.resources[k].name]
          IN  /\ view.table.catalog = <<GeomA, GeomB>>
              /\ view.geometry_column = "geom_a"
              /\ config.resources[k].geometry # <<>>

\* C17: a writable edit dataset is in the editable-dataset map exactly when
\* its view has an attribute and its introspected geometry type is POINT,
\* MULTIPOINT, LINESTRING, MULTILINESTRING, POLYGON or MULTIPOLYGON; its
\* geomType is then Point, Point, LineString, LineString, Polygon, Polygon,
\* and any other geometry type is excluded with a warning.
C17_EditableDatasets ==
    LET GeomType(type) ==
            CASE type \in {<<"POINT">>, <<"MULTI", "POINT">>} -> "Point"
              [] type \in {<<"LINESTRING">>, <<"MULTI", "LINESTRING">>} -> "LineString"
              [] type \in {<<"POLYGON">>, <<"MULTI", "POLYGON">>} -> "Polygon"
              [] OTHER -> "none"
        Introspected(view) ==
            LET info == postgis_metadata(view).info
            IN  IF "geometry_type" \in DOMAIN info THEN <<info.geometry_type>> ELSE <<>>
        Entries(i) ==
            {k \in DOMAIN config.resources : config.resources[k].editDataset = i}
    IN  config.service = "mapViewer" =>
           \A i \in DOMAIN data_set_views :
              LET view == data_set_views[i]
                  type == Introspected(view)
                  supported == type # <<>> /\ GeomType(type[1]) # "none"
              IN  /\ ~view.write => Entries(i) = {}
                  /\ view.write =>
                        /\ Entries(i) # {} <=> (view.attributes # <<>> /\ supported)
                        /\ \A k \in Entries(i) :
                              config.resources[k].geomType = GeomType(type[1])
                        /\ type # <<>> /\ ~supported =>
                              /\ Entries(i) = {}
                              /\ \E n \in DOMAIN logger :
                                    /\ logger[n].level = "warning"
                                    /\ logger[n].layer = i

\* the map viewer document holds an edit dataset with a MULTIPOLYGON column
\* as Polygon
C17_Witness ==
    /\ config.service = "mapViewer"
    /\ \E k \in DOMAIN config.resources :
          /\ data_set_views[config.resources[k].editDataset].table.catalog =
                <<GeometryColumn("geom_a", <<"MULTI", "POLYGON">>, "EPSG:2056")>>
          /\ config.resources[k].geomType = "Polygon"

\* C18: during one run every handler whose permissions(role) reads the
\* ConfigDB opens one session, on its first call, and uses it for all
\* roles; the number of sessions opened does not grow with the roles.
C18_OneSessionForAllRoles ==
    \A service \in ServiceSet :
       /\ session[service].opened <= 1
       /\ (\E role \in RoleSet : <<service, role>> \in collected) =>
             session[service].opened = 1

\* C19: every session a handler's config() opens is closed before config()
\* returns its document; no such session is open once the document is
\* validated and written.
C19_ConfigSessionClosed ==
    cfg_step \in {"validate", "write", "done"} => cfg_session = {}

\* C20: for every service with a handler the document is validated after
\* it is built and before it is written, and the write of its file is
\* attempted after the validation whatever the validation gave: valid,
\* invalid, schema not downloaded or schema not parsed.
C20_WriteFollowsValidation ==
    [][/\ cfg_step' = "validate" /\ cfg_step # "validate" => cfg_step = "config"
       /\ cfg_step' = "write" /\ cfg_step # "write" => cfg_step = "validate"
       /\ cfg_step = "validate" /\ cfg_step' # "validate" => cfg_step' = "write"
       /\ cfg_step = "write" /\ cfg_step' # "write" =>
             files' = Append(files, [name |-> config.service,
                                     outcome |-> files'[Len(files')].outcome])
       /\ files' # files => cfg_step = "write"]_vars

\* C21: write_configs and write_qgs end without an exception whatever
\* fails for one service or one layer, and the response of generate_configs
\* and of update_qgs holds the list of log messages.
C21_EntryPointsReturnLog ==
    /\ cfg_step \in {"done", "raised"} =>
          /\ cfg_raised = "none"
          /\ "log" \in DOMAIN generate_configs
    /\ step \in {"written", "returned", "raised"} =>
          /\ qgs_raised = "none"
          /\ "log" \in DOMAIN update_qgs

\* node is the output for layer: one node per layer, the children in the
\* order of the child edges; inherited is the OR of the facade flags of the
\* groups above layer, which the OGC document shows as the opacity of a
\* transparent data layer
RECURSIVE StructuralNode(_, _, _)
StructuralNode(node, layer, inherited) ==
    /\ node.name = layer
    /\ IF layer_type[layer] = "group"
       THEN /\ node.type = "layergroup"
            /\ node.hide_sublayers = facade[layer]
            /\ Len(node.layers) = Len(sub_layers[layer])
            /\ \A k \in DOMAIN node.layers :
                  StructuralNode(node.layers[k], sub_layers[layer][k],
                                 inherited \/ facade[layer])
       ELSE /\ node.type = "layer"
            /\ node.layers = <<>>
            /\ ~node.hide_sublayers
            /\ config.service = "ogc" =>
                  (node.opacity # <<>> <=> inherited /\ layer_transparency[layer] # 0)

\* C22: the nested layer tree of the OGC, FeatureInfo and Legend documents
\* has one node per layer of the tree, children in child-edge order, also
\* below facade groups; a node is handled as in a facade exactly when a
\* group above it is a facade, and 'hide_sublayers' is set exactly on the
\* facade groups.
C22_StructuralWalkKeepsEveryNode ==
    config.service \in {"ogc", "featureInfo", "legend"} =>
       /\ Len(config.resources.wms_services) = 1
       /\ StructuralNode(config.resources.wms_services[1].root_layer, RootLayer, FALSE)

\* the OGC document of a tree whose root is a facade and whose data layer
\* lies below a second group that is not a facade
C22_Witness ==
    /\ config.service = "ogc"
    /\ facade[RootLayer]
    /\ LET root == config.resources.wms_services[1].root_layer
       IN  \E k \in DOMAIN root.layers :
              /\ root.layers[k].type = "layergroup"
              /\ ~root.layers[k].hide_sublayers
              /\ \E j \in DOMAIN root.layers[k].layers :
                    root.layers[k].layers[j].opacity = <<70>>

\* the data layers below a layer, in the order of the child edges
RECURSIVE DataLayersInOrder(_)
RECURSIVE DataLayersOfSubLayers(_, _)
DataLayersOfSubLayers(layer, i) ==
    IF i > Len(sub_layers[layer]) THEN <<>>
    ELSE DataLayersInOrder(sub_layers[layer][i]) \o DataLayersOfSubLayers(layer, i + 1)

DataLayersInOrder(layer) ==
    IF layer_type[layer] = "group" THEN DataLayersOfSubLayers(layer, 1) ELSE <<layer>>

\* C23: the flat WFS layer list of the OGC document is the concatenation,
\* in child-edge order, of the lists of the sub layers, without any entry
\* for a group; every entry is a Data layer, and the attributes of a layer
\* of a spatial database end with the attributes of the view in view order
\* followed by 'geometry'.
C23_FlatteningWalk ==
    config.service = "ogc" =>
       LET layers == config.resources.wfs_services[1].layers
       IN  /\ \A k \in DOMAIN layers :
                LET attrs == layers[k].attributes
                IN  /\ layer_type[layers[k].name] = "data"
                    /\ Len(attrs) > num_attributes
                    /\ attrs[Len(attrs)] = "geometry"
                    /\ SubSeq(attrs, Len(attrs) - num_attributes, Len(attrs) - 1) =
                          [i \in 1..num_attributes |-> attributes[i].name]
           /\ connection_type = "database" =>
                 [k \in DOMAIN layers |-> layers[k].name] = DataLayersInOrder(RootLayer)

\* the OGC document of a tree with a group below the root lists the vector
\* layer with its primary key, the attributes of the view and 'geometry'
C23_Witness ==
    /\ config.service = "ogc"
    /\ \E g \in LayerIds \ {RootLayer} : layer_type[g] = "group"
    /\ \E l \in LayerIds :
          /\ layer_type[l] = "data"
          /\ config.resources.wfs_services[1].layers =
                <<[name |-> l, attributes |-> <<"id", "attr_a", "attr_b", "geometry">>]>>

\* C24: the facet list starts with 'foreground' (default) and 'background'
\* (not default), and no two of its entries have the same facet name and
\* filter word, whatever the searchable views are.
C24_FacetsDeduplicated ==
    config.service = "search" =>
       LET facets == config.resources
       IN  /\ Len(facets) >= 2
           /\ facets[1] = [name |-> "foreground", filter_word |-> "Karte",
                           default |-> TRUE]
           /\ facets[2] = [name |-> "background", filter_word |-> "Hintergrundkarte",
                           default |-> FALSE]
           /\ \A j, k \in DOMAIN facets :
                 /\ facets[j].name = facets[k].name
                 /\ facets[j].filter_word = facets[k].filter_word
                 => j = k

\* C25: for a column numeric(precision, scale) the field has
\* step = 10^(-scale), max = 10^(precision - scale) - 10^(-scale) and
\* min = -max: -999.99, 999.99 and 0.01 for numeric(5,2).
C25_NumericConstraints ==
    config.service = "mapViewer" =>
       \A k \in DOMAIN config.resources :
          LET column == data_set_views[config.resources[k].editDataset].column
              digits == column.numeric_precision
              scale == column.numeric_scale
          IN  column.data_type = "numeric" /\ digits # 0 =>
                 \A f \in DOMAIN config.resources[k].fields :
                    LET constraints == config.resources[k].fields[f].constraints
                    IN  /\ constraints.step = [neg |-> FALSE, pow |-> -scale, minus |-> <<>>]
                        /\ constraints.max =
                              [neg |-> FALSE, pow |-> digits - scale, minus |-> <<-scale>>]
                        /\ constraints.min =
                              [neg |-> TRUE, pow |-> digits - scale, minus |-> <<-scale>>]

\* C26: the connection cache is process-wide: across all db_engine calls of all
\* components at most one engine is ever created per connection string (after
\* the service suffix is appended)
C26_OneEnginePerConnectionString ==
    \A e1, e2 \in engines : e1.conn_str = e2.conn_str => e1 = e2

\* C27: two concurrent requests never share a ConfigGenerator, and a session
\* opened by one request is never read or closed by the other
C27_RequestsShareNoSession ==
    /\ \A r1, r2 \in Requests :
           (r1 # r2 /\ requests[r1].generator # 0 /\ requests[r2].generator # 0)
               => requests[r1].generator # requests[r2].generator
    /\ \A s \in DOMAIN sessions :
           /\ sessions[s].read_by \subseteq {sessions[s].opened_by}
           /\ sessions[s].closed_by \subseteq {sessions[s].opened_by}

\* both requests are in progress on the same route, each has queried a session
\* of its own that is still open
C27_Witness ==
    /\ \A r \in Requests : requests[r].pc = "running"
    /\ requests[1].route = requests[2].route
    /\ \A r \in Requests :
           \E s \in DOMAIN sessions :
               /\ sessions[s].opened_by = r
               /\ sessions[s].open
               /\ sessions[s].read_by = {r}

\* C28: in the WFS permissions of a role the attribute list of every
\* permitted vector layer starts with the primary key of the table whenever
\* one is found, as the attribute list of the layer in the WFS config does.
C28_WfsPermissionsStartWithPrimaryKey ==
    \A role \in RoleSet :
        \A s \in DOMAIN permissions[role].wfs_services :
            LET layers == permissions[role].wfs_services[s].layers
            IN  \A k \in DOMAIN layers :
                    LET pkey == postgis_primary_key(layers[k].name).pkey
                    IN  pkey # <<>> =>
                           /\ layers[k].attributes # <<>>
                           /\ layers[k].attributes[1] = pkey[1]

\* every Data layer node below node carries the 'queryable' value that
\* MapViewerConfig.layer_queryable computes for the layer
RECURSIVE QueryableAsInMapViewer(_)
QueryableAsInMapViewer(node) ==
    IF node.type = "layergroup"
    THEN \A k \in DOMAIN node.layers : QueryableAsInMapViewer(node.layers[k])
    ELSE /\ node.queryable = <<layer_queryable(node.name)>>
         /\ connection_type = "database" => node.queryable = <<num_attributes > 0>>

\* C29: the OGC WMS config marks a vector Data layer queryable if and only if
\* its Dataset View has at least one attribute, the value that
\* MapViewerConfig.layer_queryable computes; raster layers are queryable in
\* both.
C29_QueryableAsInMapViewer ==
    config.service = "ogc" =>
        QueryableAsInMapViewer(config.resources.wms_services[1].root_layer)

\* C30: update_qgs writes the project files all or nothing: once it has ended
\* without the WMS or without the WFS, no project file is written, the
\* session is closed and the log holds an error entry; with both services it
\* has written exactly <name>.qgs, <name>_print.qgs and <name>_wfs.qgs in
\* this order, only the print project holds the group of the background
\* layers and the print layouts, and the session is closed.
C30_ProjectsAllOrNothing ==
    step \in {"returned", "written", "raised"} =>
        /\ qgs_session = "closed"
        /\ IF wms_wfs # {"WMS", "WFS"}
           THEN /\ qgs_files = <<>>
                /\ \E k \in DOMAIN logger : logger[k].level = "error"
           ELSE /\ [k \in DOMAIN qgs_files |-> qgs_files[k].filename] =
                      <<<<WmsId, ".qgs">>, <<WmsId, "_print.qgs">>, <<WmsId, "_wfs.qgs">>>>
                /\ \A k \in DOMAIN qgs_files :
                      /\ (\E n \in DOMAIN qgs_files[k].layertree :
                              /\ qgs_files[k].layertree[n].type = "group"
                              /\ qgs_files[k].layertree[n].name = bg_layertree.name)
                             <=> k = 2
                      /\ qgs_files[k].composers # <<>> <=> k = 2

====
